---------------------------- MODULE Spec2Model ----------------------------
(***************************************************************************)
(* A model of faralocal/auto-exam: the workflow assembler                  *)
(* (browser/build_exam_file.py), the selector builder and the workflow     *)
(* interpreter (browser/appCourser4.py).                                   *)
(*                                                                         *)
(* Text is modelled as a sequence of one-character strings, so that        *)
(* stripping, splitting, joining, matching and integer parsing are         *)
(* computed and not assumed.  A Python value that may be None is a record  *)
(* [some, s].                                                              *)
(***************************************************************************)
EXTENDS Integers, Sequences, FiniteSets, TLC

VARIABLES
    \* ---- assembler: process_exam / merge_logic ----
    apc,          \* position in process_exam / merge_logic
    excel_path,   \* argument excel_full_path ("" stands for None / empty)
    listing,      \* what os.listdir(input_dir) returned, in its order
    sorted_files, \* merge_logic's sorted_files
    fileIdx,      \* number of files of sorted_files already read
    contents,     \* what json.load gave for each file read so far
    merged_data,  \* merge_logic's merged_data
    errors,       \* merge_logic's errors
    warnings,     \* merge_logic's warnings
    logs,         \* process_exam's logs
    outFile,      \* the file at output_path
    ml_result,    \* how merge_logic ended: "none", "true", "false", "raise"
    pe_result,    \* what process_exam handed to its caller
    \* ---- selector builder ----
    spc,          \* "in" before the call, "out" after it
    sel_in,       \* the arguments (tag, cls, attr, value)
    sel_out,      \* the returned selector
    \* ---- workflow interpreter: run and the group executors ----
    rpc,           \* position in run: "idle", "loop", "keepalive", "done"
    current_frame, \* run's current_frame ("nil" stands for None)
    fatal_error,   \* run's fatal_error is set
    stack,         \* the calls of exec_step_group_action / _group_excel
                   \* in progress, innermost last
    run_result,    \* how run ended: "none", "returned", "raised"
    last,          \* the step dispatched most recently
    prev,          \* the step dispatched before it, in brief
    follow,        \* the next dispatch takes the next sibling of `last`
    resolved,      \* the locator roots the step `last` resolved
    scope,         \* the frame selected by the latest successful frame,
                   \* main_frame or goto step, wherever it ran
    nestedScope,   \* such a step has run inside a group
    watch,         \* what of the run is recorded, and for which workflows
    err,           \* the step the latest loop pass dispatched, and how
                   \* it ended
    naps,          \* the executor calls the latest loop pass ended, with
                   \* the post-step sleeps of each
    xl,            \* what the step the latest loop pass dispatched read of
                   \* the spreadsheet, and what it typed
    pages,         \* the pages open in the browser run launched
    \* ---- helpers called on their own ----
    fpc,          \* "idle", "in" before the call, "loop" inside its
                  \* loop, "out" after it
    f_in,         \* the arguments
    f_out         \* what the call has done so far, and its result

asmVars == <<apc, excel_path, listing, sorted_files, fileIdx, contents,
             merged_data, errors, warnings, logs, outFile, ml_result, pe_result>>
selVars == <<spc, sel_in, sel_out>>
runVars == <<rpc, current_frame, fatal_error, stack, run_result,
             last, prev, follow, resolved, scope, nestedScope,
             watch, err, naps, xl, pages>>
fnVars == <<fpc, f_in, f_out>>

\* ------------------------------------------------------------------------
\* Bounds
\* ------------------------------------------------------------------------
\* Largest number of directory entries os.listdir returns.
MaxFiles == 2
\* Longest class string handed to the selector builder.
MaxLen == 4

\* ------------------------------------------------------------------------
\* Text helpers
\* ------------------------------------------------------------------------
Digits == {"0", "1", "2", "3", "4", "5", "6", "7", "8", "9"}

DigitVal(c) ==
    CASE c = "0" -> 0 [] c = "1" -> 1 [] c = "2" -> 2 [] c = "3" -> 3
      [] c = "4" -> 4 [] c = "5" -> 5 [] c = "6" -> 6 [] c = "7" -> 7
      [] c = "8" -> 8 [] c = "9" -> 9

\* str.lower() on one character (the letters the file names and the step
\* types here are made of).
LowerChar(c) ==
    CASE c = "J" -> "j" [] c = "S" -> "s" [] c = "O" -> "o" [] c = "N" -> "n"
      [] c = "X" -> "x" [] c = "T" -> "t"
      [] c = "C" -> "c" [] c = "L" -> "l" [] c = "I" -> "i" [] c = "K" -> "k"
      [] c = "G" -> "g" [] c = "H" -> "h" [] c = "V" -> "v" [] c = "E" -> "e"
      [] c = "R" -> "r" [] c = "A" -> "a" [] c = "B" -> "b" [] c = "U" -> "u"
      [] OTHER -> c

Lower(s) == [i \in 1..Len(s) |-> LowerChar(s[i])]

EndsWith(s, suf) ==
    /\ Len(s) >= Len(suf)
    /\ SubSeq(s, Len(s) - Len(suf) + 1, Len(s)) = suf

DotJson == <<".", "j", "s", "o", "n">>

\* re.match(r"^\d+\.json$", f, re.IGNORECASE): one or more digits, then
\* ".json" in any letter case, and nothing else.
MatchNumericJson(f) ==
    \E n \in 1..Len(f) :
        /\ \A i \in 1..n : f[i] \in Digits
        /\ Lower(SubSeq(f, n + 1, Len(f))) = DotJson

\* The filter of the list comprehension that builds json_files.
IsJsonFragmentName(f) ==
    /\ EndsWith(Lower(f), DotJson)
    /\ MatchNumericJson(f)

\* os.path.splitext(x)[0]: the name up to its last dot.
LastDot(x) ==
    IF \E i \in 1..Len(x) : x[i] = "."
    THEN CHOOSE i \in 1..Len(x) : x[i] = "." /\ \A j \in (i+1)..Len(x) : x[j] # "."
    ELSE 0

SplitExtStem(x) == IF LastDot(x) > 1 THEN SubSeq(x, 1, LastDot(x) - 1) ELSE x

\* int(s) for a string of decimal digits.
RECURSIVE IntOf(_)
IntOf(s) ==
    IF Len(s) = 0 THEN 0
    ELSE 10 * IntOf(SubSeq(s, 1, Len(s) - 1)) + DigitVal(s[Len(s)])

\* The sort key of line 37: int(os.path.splitext(x)[0]).
SortKey(x) == IntOf(SplitExtStem(x))

\* sorted(json_files, key=...): Python's sort is stable, so entries with the
\* same key keep the order they had in json_files.
InsertStable(s, x) ==
    LET n == Cardinality({i \in 1..Len(s) : SortKey(s[i]) <= SortKey(x)})
    IN  SubSeq(s, 1, n) \o <<x>> \o SubSeq(s, n + 1, Len(s))

\* Mutant of SortedByKey: the sort is dropped, files stay in listing order.
ListingOrder(s) == s

RECURSIVE SortedByKey(_)
SortedByKey(s) ==
    IF Len(s) = 0 THEN <<>>
    ELSE InsertStable(SortedByKey(SubSeq(s, 1, Len(s) - 1)), s[Len(s)])

\* ------------------------------------------------------------------------
\* The assembler's inputs: directory entries and fragment contents
\* ------------------------------------------------------------------------
N_1      == <<"1", ".", "j", "s", "o", "n">>
N_01     == <<"0", "1", ".", "j", "s", "o", "n">>
N_2      == <<"2", ".", "j", "s", "o", "n">>
N_10     == <<"1", "0", ".", "j", "s", "o", "n">>
N_3UP    == <<"3", ".", "J", "S", "O", "N">>
N_x1     == <<"x", "1", ".", "j", "s", "o", "n">>
N_1txt   == <<"1", ".", "t", "x", "t">>

FileNames == {N_1, N_01, N_2, N_10, N_3UP, N_x1, N_1txt}

\* Every result os.listdir can give: up to MaxFiles distinct names, any order.
Listings ==
    {l \in UNION {[1..n -> FileNames] : n \in 0..MaxFiles} :
        \A i, j \in 1..Len(l) : i # j => l[i] # l[j]}

\* A JSON object that is a workflow step.  actionsKind says what its
\* "actions" key holds: "absent", "list" or "other" (not a list).
Elem(t, g) ==
    [dict |-> TRUE, type |-> t, tag |-> g, actionsKind |-> "absent",
     actions |-> <<>>, file |-> "", start_row |-> 0]

HeaderElem(kind, acts) ==
    [dict |-> TRUE, type |-> "group_excel", tag |-> "", actionsKind |-> kind,
     actions |-> acts, file |-> "old.xlsx", start_row |-> 2]

\* What reading one fragment can give: kind "array" (a JSON list), "object"
\* (valid JSON, not a list), "invalid" (json.JSONDecodeError) or
\* "unreadable" (open() or read raised another exception).
Arr(items) == [kind |-> "array", items |-> items]

FragmentContents ==
    { Arr(<<Elem("goto", "a")>>),
      Arr(<<Elem("click", "b"), Elem("write", "c")>>),
      Arr(<<>>),
      [kind |-> "object", items |-> <<>>],
      [kind |-> "invalid", items |-> <<>>],
      [kind |-> "unreadable", items |-> <<>>],
      Arr(<<HeaderElem("list", <<Elem("write_excel", "d")>>)>>),
      Arr(<<HeaderElem("list", <<Elem("write_excel", "d")>>), Elem("click", "e")>>),
      Arr(<<HeaderElem("other", <<>>)>>),
      Arr(<<HeaderElem("absent", <<>>)>>) }

ExcelPaths == {"", "s.xlsx"}

NoFile == [state |-> "absent", data |-> <<>>]
Written(data) == [state |-> "written", data |-> data]
\* open(output_path, "w") succeeded and json.dump raised: the file exists,
\* truncated or partly written.
PartialFile == [state |-> "partial", data |-> <<>>]

Log(m, a) == [msg |-> m, arg |-> a]

\* ------------------------------------------------------------------------
\* merge_logic, one step at a time
\* ------------------------------------------------------------------------
\* Mutant of IsGroupExcelFragment: the special case no longer asks for a
\* spreadsheet path.
IsGroupExcelFragmentAnyRun(excel, content) ==
    /\ Len(content.items) > 0
    /\ content.items[1].dict
    /\ content.items[1].type = "group_excel"

\* Lines 58-70: what one fragment that parsed to a list adds to merged_data.
\* The group_excel special case applies only when excel_full_path is truthy.
IsGroupExcelFragment(excel, content) ==
    /\ excel # ""
    /\ Len(content.items) > 0
    /\ content.items[1].dict
    /\ content.items[1].type = "group_excel"

FragmentActions(content) ==
    IF content.items[1].actionsKind = "other" THEN <<>>
    ELSE content.items[1].actions

Contribution(excel, content) ==
    IF content.kind # "array" THEN <<>>
    ELSE IF IsGroupExcelFragment(excel, content) THEN FragmentActions(content)
    ELSE content.items

\* Mutant of FragmentError: a skipped fragment leaves no diagnostic.
NoFragmentError(excel, content) == <<>>

\* Lines 53-55, 63-64, 72-75: the entry added to errors, if any.
FragmentError(excel, content) ==
    CASE content.kind = "object"     -> <<"not a valid JSON array">>
      [] content.kind = "invalid"    -> <<"JSON decode error">>
      [] content.kind = "unreadable" -> <<"Error processing">>
      [] OTHER ->
           IF /\ IsGroupExcelFragment(excel, content)
              /\ content.items[1].actionsKind = "other"
           THEN <<"Invalid 'actions' field">>
           ELSE <<>>

\* Lines 59-60: the entry added to warnings, if any.
FragmentWarning(excel, content) ==
    IF content.kind = "array" /\ IsGroupExcelFragment(excel, content)
       /\ Len(content.items) > 1
    THEN <<"additional elements after group_excel">>
    ELSE <<>>

\* Lines 67, 70: the success line logged for a fragment, if any.
FragmentLog(excel, content, name) ==
    IF content.kind # "array" THEN <<>>
    ELSE IF IsGroupExcelFragment(excel, content)
         THEN IF content.items[1].actionsKind = "other" THEN <<>>
              ELSE <<Log("Processed as group_excel", name)>>
         ELSE <<Log("Successfully processed", name)>>

\* Mutant of FinalData: the group_excel wrapper is never added.
FinalDataUnwrapped(excel, merged) == merged

\* Lines 93-110: the wrapping of merged_data.
FinalData(excel, merged) ==
    IF excel # ""
    THEN << [dict |-> TRUE, type |-> "group_excel", tag |-> "",
             actionsKind |-> "list", actions |-> merged,
             file |-> excel, start_row |-> 2] >>
    ELSE merged

Tagged(m, names) == [i \in 1..Len(names) |-> Log(m, names[i])]

\* The interpreter and the selector builder take no part in an assembler run.
OthersIdle == UNCHANGED <<selVars, runVars, fnVars>>

AsmUnchangedData ==
    UNCHANGED <<excel_path, listing, sorted_files, fileIdx, contents,
                merged_data, errors, warnings, outFile>>

\* process_exam lines 138-157: the banner, then the call of merge_logic.
PeStart ==
    /\ OthersIdle
    /\ apc = "start"
    /\ logs' = logs \o << Log("--- Starting Build Process ---", <<>>),
                          Log("Excel File", <<>>), Log("Input Dir", <<>>),
                          Log("Output File", <<>>) >>
    /\ apc' = "isdir"
    /\ UNCHANGED <<ml_result, pe_result>>
    /\ AsmUnchangedData

\* merge_logic lines 17-19.
MlCheckDir ==
    /\ OthersIdle
    /\ apc = "isdir"
    /\ \E isdir \in BOOLEAN :
         IF isdir
         THEN /\ apc' = "ext"
              /\ UNCHANGED <<logs, ml_result>>
         ELSE /\ apc' = "ml_done"
              /\ logs' = Append(logs, Log("Error: not a valid directory", <<>>))
              /\ ml_result' = "false"
    /\ UNCHANGED pe_result
    /\ AsmUnchangedData

\* merge_logic lines 22-24.
MlCheckExt ==
    /\ OthersIdle
    /\ apc = "ext"
    /\ \E isjson \in BOOLEAN :
         IF isjson
         THEN /\ apc' = "listdir"
              /\ UNCHANGED <<logs, ml_result>>
         ELSE /\ apc' = "ml_done"
              /\ logs' = Append(logs, Log("Error: Output file must have a .json extension", <<>>))
              /\ ml_result' = "false"
    /\ UNCHANGED pe_result
    /\ AsmUnchangedData

\* merge_logic lines 27-40: list the directory, keep the numeric names, sort.
JsonFiles(l) == SelectSeq(l, IsJsonFragmentName)

MlListDir ==
    /\ OthersIdle
    /\ apc = "listdir"
    /\ \/ \E l \in Listings :
            /\ listing' = l
            /\ IF JsonFiles(l) = <<>>
               THEN /\ apc' = "ml_done"
                    /\ ml_result' = "false"
                    /\ logs' = Append(logs, Log("No valid JSON files with numeric names", <<>>))
                    /\ UNCHANGED sorted_files
               ELSE /\ apc' = "loop"
                    /\ sorted_files' = SortedByKey(JsonFiles(l))
                    /\ logs' = logs \o << Log("Found valid JSON files", <<>>),
                                          Log("Processing files in order", <<>>) >>
                    /\ UNCHANGED ml_result
       \/ \* os.listdir raises (the directory vanished or cannot be read)
          /\ apc' = "ml_done"
          /\ ml_result' = "raise"
          /\ UNCHANGED <<listing, sorted_files, logs>>
    /\ UNCHANGED <<excel_path, fileIdx, contents, merged_data, errors,
                   warnings, outFile, pe_result>>

\* merge_logic lines 47-75: one pass of the loop over sorted_files.
MlReadFile ==
    /\ OthersIdle
    /\ apc = "loop"
    /\ fileIdx < Len(sorted_files)
    /\ \E content \in FragmentContents :
         LET name == sorted_files[fileIdx + 1] IN
         /\ contents' = Append(contents, content)
         /\ merged_data' = merged_data \o Contribution(excel_path, content)
         /\ errors' = errors \o Tagged("error", IF FragmentError(excel_path, content) = <<>>
                                                THEN <<>> ELSE <<name>>)
         /\ warnings' = warnings \o Tagged("warning", IF FragmentWarning(excel_path, content) = <<>>
                                                      THEN <<>> ELSE <<name>>)
         /\ logs' = logs \o FragmentLog(excel_path, content, name)
    /\ fileIdx' = fileIdx + 1
    /\ UNCHANGED <<apc, excel_path, listing, sorted_files, outFile, ml_result, pe_result>>

\* Mutant of MlReport: an empty merge is saved like any other.
MlReportSavingNothing ==
    /\ OthersIdle
    /\ apc = "loop"
    /\ fileIdx = Len(sorted_files)
    /\ LET reported == logs
             \o (IF warnings # <<>> THEN <<Log("Warnings encountered", <<>>)>> \o warnings ELSE <<>>)
             \o (IF errors # <<>> THEN <<Log("Errors encountered", <<>>)>> \o errors ELSE <<>>)
       IN IF FALSE
          THEN /\ logs' = Append(reported, Log("No valid data to merge. Aborting.", <<>>))
               /\ apc' = "ml_done"
               /\ ml_result' = "false"
          ELSE /\ logs' = reported \o (IF excel_path # ""
                                       THEN <<Log("Wrapped items in group_excel structure", <<>>)>>
                                       ELSE <<>>)
               /\ apc' = "save"
               /\ UNCHANGED ml_result
    /\ UNCHANGED pe_result
    /\ AsmUnchangedData

\* merge_logic lines 78-111: report warnings and errors, stop on an empty
\* merge, otherwise go on to save.
MlReport ==
    /\ OthersIdle
    /\ apc = "loop"
    /\ fileIdx = Len(sorted_files)
    /\ LET reported == logs
             \o (IF warnings # <<>> THEN <<Log("Warnings encountered", <<>>)>> \o warnings ELSE <<>>)
             \o (IF errors # <<>> THEN <<Log("Errors encountered", <<>>)>> \o errors ELSE <<>>)
       IN IF merged_data = <<>>
          THEN /\ logs' = Append(reported, Log("No valid data to merge. Aborting.", <<>>))
               /\ apc' = "ml_done"
               /\ ml_result' = "false"
          ELSE /\ logs' = reported \o (IF excel_path # ""
                                       THEN <<Log("Wrapped items in group_excel structure", <<>>)>>
                                       ELSE <<>>)
               /\ apc' = "save"
               /\ UNCHANGED ml_result
    /\ UNCHANGED pe_result
    /\ AsmUnchangedData

\* merge_logic lines 113-128: write the output file.
SaveOutcomes == {"ok", "open_fails", "dump_fails"}

MlSave ==
    /\ OthersIdle
    /\ apc = "save"
    /\ \E o \in SaveOutcomes :
         CASE o = "ok" ->
                /\ outFile' = Written(FinalData(excel_path, merged_data))
                /\ logs' = logs \o << Log("Successfully saved output", <<>>),
                                      Log("Total items", <<>>), Log("File size", <<>>) >>
                /\ ml_result' = "true"
           [] o = "open_fails" ->
                /\ UNCHANGED outFile
                /\ logs' = Append(logs, Log("Error saving output file", <<>>))
                /\ ml_result' = "false"
           [] o = "dump_fails" ->
                /\ outFile' = PartialFile
                /\ logs' = Append(logs, Log("Error saving output file", <<>>))
                /\ ml_result' = "false"
    /\ apc' = "ml_done"
    /\ UNCHANGED <<excel_path, listing, sorted_files, fileIdx, contents,
                   merged_data, errors, warnings, pe_result>>

\* Mutant of ProcessExamResult: no except clause, the exception reaches the
\* caller.
ProcessExamNoCatch(res, lg) ==
    IF res = "raise"
    THEN [how |-> "raised", success |-> FALSE, log |-> lg]
    ELSE [how |-> "returned", success |-> (res = "true"), log |-> lg]

\* process_exam lines 150-163: return (success, log text); an exception out
\* of merge_logic is caught, logged and turned into (False, log text).
ProcessExamResult(res, lg) ==
    IF res = "raise"
    THEN [how |-> "returned", success |-> FALSE,
          log |-> Append(lg, Log("Critical Error in process_exam", <<>>))]
    ELSE [how |-> "returned", success |-> (res = "true"), log |-> lg]

PeReturn ==
    /\ OthersIdle
    /\ apc = "ml_done"
    /\ pe_result' = ProcessExamResult(ml_result, logs)
    /\ logs' = pe_result'.log
    /\ apc' = "returned"
    /\ UNCHANGED ml_result
    /\ AsmUnchangedData

AsmInit ==
    /\ apc = "start"
    /\ excel_path \in ExcelPaths
    /\ listing = <<>>
    /\ sorted_files = <<>>
    /\ fileIdx = 0
    /\ contents = <<>>
    /\ merged_data = <<>>
    /\ errors = <<>>
    /\ warnings = <<>>
    /\ logs = <<>>
    /\ outFile = NoFile
    /\ ml_result = "none"
    /\ pe_result = [how |-> "none", success |-> FALSE, log |-> <<>>]

AsmNext ==
    \/ PeStart
    \/ MlCheckDir
    \/ MlCheckExt
    \/ MlListDir
    \/ MlReadFile
    \/ MlReport
    \/ MlSave
    \/ PeReturn

SelIdle ==
    /\ spc = "idle"
    /\ sel_in = <<>>
    /\ sel_out = <<>>

\* No step has been dispatched yet.
NoDispatch ==
    [type |-> "none", ok |-> FALSE, seen |-> "nil", after |-> "nil",
     parent |-> [base |-> "none", path |-> <<>>], cont |-> FALSE]
NoneBefore == [type |-> "none", ok |-> FALSE, seen |-> "nil"]
\* The latest loop pass dispatched no step.
NoErr ==
    [dispatcher |-> "none", depth |-> 0, type |-> "", ignore |-> FALSE,
     cover |-> FALSE, exec |-> "none", ok |-> TRUE, next |-> FALSE,
     raised |-> 0, raw |-> ""]

RunIdle ==
    /\ rpc = "idle"
    /\ current_frame = "nil"
    /\ fatal_error = FALSE
    /\ stack = <<>>
    /\ run_result = "none"
    /\ last = NoDispatch
    /\ prev = NoneBefore
    /\ follow = FALSE
    /\ resolved = <<>>
    /\ scope = "nil"
    /\ nestedScope = FALSE
    /\ watch = "none"
    /\ err = NoErr
    /\ naps = <<>>
    /\ xl = [type |-> "none"]
    /\ pages = 0

\* No helper is called on its own.
FnIdle ==
    /\ fpc = "idle"
    /\ f_in = <<>>
    /\ f_out = <<>>

vars == <<asmVars, selVars, runVars, fnVars>>

\* The assembler alone: one call of process_exam.
InitAsm == AsmInit /\ SelIdle /\ RunIdle /\ FnIdle

SpecAsm == InitAsm /\ [][AsmNext]_vars

\* ------------------------------------------------------------------------
\* The assembler's claims
\* ------------------------------------------------------------------------
\* What the claims call a fragment: a directory entry whose name is one or
\* more digits followed by ".json" (extension in any letter case).
NamedLikeFragment(f) ==
    /\ Len(f) > 5
    /\ \A i \in 1..(Len(f) - 5) : f[i] \in Digits
    /\ LowerChar(f[Len(f) - 4]) = "." /\ LowerChar(f[Len(f) - 3]) = "j"
    /\ LowerChar(f[Len(f) - 2]) = "s" /\ LowerChar(f[Len(f) - 1]) = "o"
    /\ LowerChar(f[Len(f)]) = "n"

\* The integer k of a fragment k.json, read digit by digit from the left.
RECURSIVE LeadingNumber(_, _)
LeadingNumber(f, acc) ==
    IF Len(f) = 0 \/ Head(f) \notin Digits THEN acc
    ELSE LeadingNumber(Tail(f), 10 * acc + DigitVal(Head(f)))

FragmentNumber(f) == LeadingNumber(f, 0)

PlaceIn(l, f) == CHOOSE i \in 1..Len(l) : l[i] = f

DirFragments == {listing[i] : i \in {j \in 1..Len(listing) : NamedLikeFragment(listing[j])}}

\* f comes before g: by integer value; fragments of equal value (1.json and
\* 01.json) either in directory-listing order (byListing) or in an order
\* the listing has no part in (the shorter name first).
ComesBefore(f, g, byListing) ==
    \/ FragmentNumber(f) < FragmentNumber(g)
    \/ /\ FragmentNumber(f) = FragmentNumber(g)
       /\ IF byListing THEN PlaceIn(listing, f) < PlaceIn(listing, g)
                       ELSE Len(f) < Len(g)

RECURSIVE InOrder(_, _)
InOrder(S, byListing) ==
    IF S = {} THEN <<>>
    ELSE LET first == CHOOSE f \in S : \A g \in S \ {f} : ComesBefore(f, g, byListing)
         IN  <<first>> \o InOrder(S \ {first}, byListing)

\* The content read for a fragment (known once the loop has read it).
ContentOf(f) == contents[PlaceIn(sorted_files, f)]

ListOf(c) == IF c.kind = "array" THEN c.items ELSE <<>>

StartsWithHeader(c) ==
    /\ c.kind = "array"
    /\ c.items # <<>>
    /\ c.items[1].type = "group_excel"

HeaderActions(c) ==
    IF c.items[1].actionsKind = "list" THEN c.items[1].actions ELSE <<>>

\* The lists Lk one after the other.
RECURSIVE ConcatLists(_)
ConcatLists(names) ==
    IF names = <<>> THEN <<>>
    ELSE ListOf(ContentOf(Head(names))) \o ConcatLists(Tail(names))

\* The same, a fragment that starts with a group_excel header giving the
\* header's actions instead of its own elements.
RECURSIVE ConcatSpliced(_)
ConcatSpliced(names) ==
    IF names = <<>> THEN <<>>
    ELSE (IF StartsWithHeader(ContentOf(Head(names)))
          THEN HeaderActions(ContentOf(Head(names)))
          ELSE ListOf(ContentOf(Head(names))))
         \o ConcatSpliced(Tail(names))

AssemblerWrote == apc = "returned" /\ pe_result.success

\* C1 (as amended): without a spreadsheet path the output the assembler
\* writes is the concatenation of the fragment lists in integer order of k,
\* whatever the listing order of fragments of different k; fragments of equal
\* integer value (1.json, 01.json) follow one another in listing order; other
\* directory entries contribute nothing.
C1_AssemblerOrder ==
    (AssemblerWrote /\ excel_path = "")
        => outFile = Written(ConcatLists(InOrder(DirFragments, TRUE)))

\* C1 as stated: the output depends on the set of fragments only, not on the
\* order in which the directory lists them.
C1_OrderIndependentOfListing ==
    (AssemblerWrote /\ excel_path = "")
        => outFile = Written(ConcatLists(InOrder(DirFragments, FALSE)))

\* 10.json is listed before 2.json and the output still has 2.json's list first.
C1_Witness ==
    /\ AssemblerWrote /\ excel_path = ""
    /\ listing = <<N_10, N_2>>
    /\ contents = << Arr(<<Elem("goto", "a")>>),
                     Arr(<<Elem("click", "b"), Elem("write", "c")>>) >>
    /\ outFile.data = <<Elem("goto", "a"), Elem("click", "b"), Elem("write", "c")>>

WrapOf(path, M) ==
    [dict |-> TRUE, type |-> "group_excel", tag |-> "", actionsKind |-> "list",
     actions |-> M, file |-> path, start_row |-> 2]

\* C2 (as amended): with a spreadsheet path the output the assembler writes
\* is the one-element list [{type: group_excel, file: path, start_row: 2,
\* actions: M}], where M concatenates the fragments in integer order, a
\* fragment that starts with a group_excel header giving that header's
\* actions and every other fragment its own list.
C2_WrapWithSpreadsheet ==
    (AssemblerWrote /\ excel_path # "")
        => outFile = Written(<< WrapOf(excel_path, ConcatSpliced(InOrder(DirFragments, TRUE))) >>)

\* C2 as stated: M is what the assembler would emit without a spreadsheet.
C2_WrapsTheUnwrappedOutput ==
    (AssemblerWrote /\ excel_path # "")
        => outFile = Written(<< WrapOf(excel_path, ConcatLists(InOrder(DirFragments, TRUE))) >>)

C2_Witness ==
    /\ AssemblerWrote /\ excel_path = "s.xlsx"
    /\ listing = <<N_2, N_1>>
    /\ Len(outFile.data) = 1
    /\ outFile.data[1].file = "s.xlsx" /\ outFile.data[1].start_row = 2
    /\ outFile.data[1].actions = <<Elem("goto", "a"), Elem("click", "b"), Elem("write", "c")>>

\* One pass of the fragment loop has just read fragment number fileIdx'.
ReadStep == apc = "loop" /\ fileIdx' = fileIdx + 1

JustRead == contents'[fileIdx']

JustReadName == sorted_files[fileIdx']

WarningsReported ==
    apc \in {"save", "ml_done", "returned"} /\ ml_result # "raise"
        => \A i \in 1..Len(warnings) : \E j \in 1..Len(logs) : logs[j] = warnings[i]

\* C3 (as amended): when a spreadsheet path is given, a fragment whose first
\* element has type group_excel contributes that element's actions list and
\* not the header, and a warning is recorded when further elements follow
\* the header; without a spreadsheet path such a fragment is merged as it
\* is, header included, with no warning.
C3_HeaderSplice ==
    /\ [][ (ReadStep /\ StartsWithHeader(JustRead)) =>
             IF excel_path # ""
             THEN /\ merged_data' = merged_data \o HeaderActions(JustRead)
                  /\ warnings' = IF Len(JustRead.items) > 1
                                 THEN Append(warnings, Log("warning", JustReadName))
                                 ELSE warnings
             ELSE /\ merged_data' = merged_data \o JustRead.items
                  /\ warnings' = warnings ]_vars
    /\ []WarningsReported

\* C3 as stated: the header's actions are spliced in on every run, with or
\* without a spreadsheet path.
C3_HeaderSpliceOnEveryRun ==
    [][ (ReadStep /\ StartsWithHeader(JustRead)) =>
          /\ merged_data' = merged_data \o HeaderActions(JustRead)
          /\ (Len(JustRead.items) > 1 =>
                warnings' = Append(warnings, Log("warning", JustReadName))) ]_vars

C3_Witness ==
    /\ excel_path # "" /\ apc = "returned"
    /\ contents = << Arr(<<HeaderElem("list", <<Elem("write_excel", "d")>>), Elem("click", "e")>>) >>
    /\ merged_data = <<Elem("write_excel", "d")>>
    /\ \E j \in 1..Len(logs) : logs[j] = Log("warning", sorted_files[1])

Skipped(c) == c.kind \in {"object", "invalid", "unreadable"}

LoopFinished == apc = "returned" /\ sorted_files # <<>> /\ fileIdx = Len(sorted_files)

ErrorsReported ==
    LoopFinished
        => \A i \in 1..Len(errors) : \E j \in 1..Len(logs) : logs[j] = errors[i]

C5_ProcessExamNeverRaises ==
    /\ apc # "returned" => pe_result.how = "none"
    /\ apc = "returned" =>
         /\ pe_result.how = "returned"
         /\ pe_result.success \in BOOLEAN
         /\ pe_result.log = logs
         /\ pe_result.success =>
              /\ ml_result = "true"
              /\ outFile = Written(FinalData(excel_path, merged_data))

C5_Witness ==
    /\ apc = "returned"
    /\ ml_result = "raise"
    /\ pe_result.how = "returned" /\ ~pe_result.success
    /\ outFile = NoFile


\* ------------------------------------------------------------------------
\* The selector builder (appCourser4.py, lines 342-369)
\* ------------------------------------------------------------------------
None == [some |-> FALSE, s |-> <<>>]
Some(str) == [some |-> TRUE, s |-> str]

\* Python truthiness of an Optional[str]: None and "" are falsy.
Truthy(o) == o.some /\ o.s # <<>>

IsSpace(c) == c = " "

RECURSIVE LStrip(_)
LStrip(s) ==
    IF s # <<>> /\ IsSpace(Head(s)) THEN LStrip(Tail(s)) ELSE s

RECURSIVE RStrip(_)
RStrip(s) ==
    IF s # <<>> /\ IsSpace(s[Len(s)])
    THEN RStrip(SubSeq(s, 1, Len(s) - 1))
    ELSE s

\* str.strip()
Strip(s) == RStrip(LStrip(s))

\* str.split(): the maximal runs of non-space characters, in order.
\* cur is the token being read, acc the tokens already closed.
RECURSIVE SplitFrom(_, _, _)
SplitFrom(s, cur, acc) ==
    IF s = <<>>
    THEN IF cur = <<>> THEN acc ELSE Append(acc, cur)
    ELSE IF IsSpace(Head(s))
         THEN SplitFrom(Tail(s), <<>>,
                        IF cur = <<>> THEN acc ELSE Append(acc, cur))
         ELSE SplitFrom(Tail(s), Append(cur, Head(s)), acc)

Split(s) == SplitFrom(s, <<>>, <<>>)

\* sep.join(parts)
RECURSIVE Join(_, _)
Join(parts, sep) ==
    IF parts = <<>> THEN <<>>
    ELSE IF Len(parts) = 1 THEN parts[1]
    ELSE parts[1] \o sep \o Join(Tail(parts), sep)

StartsWith(s, c) == s # <<>> /\ s[1] = c

\* The class part with every token given its own dot, whatever the first
\* character of the string.
normalize_class_selector_by_token(cls_value) ==
    IF ~Truthy(cls_value) THEN <<>>
    ELSE LET parts == Split(Strip(cls_value.s))
             Dotted(p) == IF StartsWith(p, ".") THEN p ELSE <<".">> \o p
         IN  Join([i \in 1..Len(parts) |-> Dotted(parts[i])], <<>>)

\* Lines 342-352.
normalize_class_selector(cls_value) ==
    IF ~Truthy(cls_value) THEN <<>>
    ELSE LET s == Strip(cls_value.s)
             parts == Split(s)
         IN  IF StartsWith(s, ".") THEN s
             ELSE IF parts # <<>> THEN <<".">> \o Join(parts, <<".">>)
             ELSE <<>>

\* Lines 355-369.
build_css_selector(tag, cls, attr, value) ==
    LET t == Strip(IF Truthy(tag) THEN tag.s ELSE <<"*">>)
        c == normalize_class_selector(cls)
        a == IF Truthy(attr) /\ value.some
             THEN <<"[">> \o attr.s \o <<"=", "\"">> \o value.s \o <<"\"", "]">>
             ELSE IF Truthy(attr) THEN <<"[">> \o attr.s \o <<"]">>
             ELSE <<>>
    IN  t \o c \o a

\* The arguments the builder is called with.
Strings(A, n) == UNION {[1..k -> A] : k \in 0..n}
ClassChars == {"a", "b", ".", " "}
TagArgs == {None, Some(<<>>), Some(<<"d">>), Some(<<" ", "d">>), Some(<<" ">>)}
ClassArgs == {None} \cup {Some(s) : s \in Strings(ClassChars, MaxLen)}
AttrArgs == {None, Some(<<>>), Some(<<"h">>)}
ValueArgs == {None, Some(<<>>), Some(<<"v">>)}

\* The assembler takes no part in a call of the selector builder.
AsmIdle ==
    /\ apc = "idle"
    /\ excel_path = ""
    /\ listing = <<>>
    /\ sorted_files = <<>>
    /\ fileIdx = 0
    /\ contents = <<>>
    /\ merged_data = <<>>
    /\ errors = <<>>
    /\ warnings = <<>>
    /\ logs = <<>>
    /\ outFile = NoFile
    /\ ml_result = "none"
    /\ pe_result = [how |-> "none", success |-> FALSE, log |-> <<>>]

SelInit ==
    /\ spc = "in"
    /\ sel_in \in [tag : TagArgs, cls : ClassArgs,
                   attr : AttrArgs, value : ValueArgs]
    /\ sel_out = <<>>

\* One call of build_css_selector.
SelBuild ==
    /\ spc = "in"
    /\ sel_out' = build_css_selector(sel_in.tag, sel_in.cls,
                                     sel_in.attr, sel_in.value)
    /\ spc' = "out"
    /\ UNCHANGED sel_in
    /\ UNCHANGED <<asmVars, runVars, fnVars>>

SelNext == SelBuild

InitSel == AsmIdle /\ SelInit /\ RunIdle /\ FnIdle

SpecSel == InitSel /\ [][SelNext]_vars


\* ------------------------------------------------------------------------
\* The selector builder's claim
\* ------------------------------------------------------------------------
\* The tag part the claim names: '*' for an absent or empty tag, otherwise
\* the tag (read without its surrounding blanks).
TagPart(tag) == IF Truthy(tag) THEN Strip(tag.s) ELSE <<"*">>

\* The class parts the claim admits for a class string with tokens
\* c1 .. cn: nothing without tokens; the token itself when it is the only
\* one and starts with '.'; otherwise '.c1.c2...cn', each token given a dot
\* (a token that already starts with one may or may not get a second).
ClassParts(cls) ==
    LET parts == IF Truthy(cls) THEN Split(cls.s) ELSE <<>>
    IN  IF parts = <<>> THEN { <<>> }
        ELSE IF Len(parts) = 1 /\ StartsWith(parts[1], ".") THEN { parts[1] }
        ELSE { <<".">> \o Join(parts, <<".">>),
               normalize_class_selector_by_token(cls) }

\* The attribute part the claim names.
AttrPart(attr, value) ==
    IF ~Truthy(attr) THEN <<>>
    ELSE IF value.some
         THEN <<"[">> \o attr.s \o <<"=", "\"">> \o value.s \o <<"\"", "]">>
         ELSE <<"[">> \o attr.s \o <<"]">>

\* A class string of several tokens whose first token starts with '.'.
DottedMultiToken(cls) ==
    /\ Truthy(cls)
    /\ Len(Split(cls.s)) > 1
    /\ StartsWith(Split(cls.s)[1], ".")

\* C6: for every (tag, class string, attr, value), build_css_selector
\* returns tag-or-'*', then the class part ('c1 c2' gives '.c1.c2', a single
\* token starting with '.' is passed through), then the attribute part
\* ([attr="value"], [attr] or nothing).
C6_SelectorAsDocumented ==
    spc = "out" =>
        \E c \in ClassParts(sel_in.cls) :
            sel_out = TagPart(sel_in.tag) \o c
                        \o AttrPart(sel_in.attr, sel_in.value)

\* C6, apart from class strings of several tokens that start with '.': the
\* builder returns the documented selector.
C6_SelectorUnlessDottedMultiToken ==
    (spc = "out" /\ ~DottedMultiToken(sel_in.cls)) => C6_SelectorAsDocumented

\* C6: the class string '.a b' comes back with its blank, '*.a b'.
C6_Witness ==
    /\ spc = "out"
    /\ sel_in.cls = Some(<<".", "a", " ", "b">>)
    /\ sel_in.tag = None
    /\ sel_in.attr = None
    /\ sel_out = <<"*", ".", "a", " ", "b">>

\* ------------------------------------------------------------------------
\* The workflow interpreter (appCourser4.py): scope and steps
\* ------------------------------------------------------------------------
\* Longest "actions" list of a group step.
MaxActions == 2
\* Largest number of elements a group_action's parent selector matches.
MaxParents == 2
\* Largest number of pages the browser opens with.
MaxPages == 2
\* Largest number of data rows load_excel_rows returns.
MaxRows == 2

\* current_frame is None ("nil") or the handle a frame step returned.
NoFrame == "nil"
FrameTargets == {"f1", "f2"}

\* A locator root: the page, a frame handle, or an element reached from one
\* of them by .locator(selector).nth(i), .locator(selector).nth(j), ...
PageRoot == [base |-> "page", path |-> <<>>]
FrameRoot(f) == [base |-> f, path |-> <<>>]
Nth(root, i) == [root EXCEPT !.path = Append(@, i)]
\* parent=None
NoParent == [base |-> "none", path |-> <<>>]

\* The root with the frame preferred to the parent.
get_locator_root_frame_first(page, frame, parent) ==
    IF frame # NoFrame THEN FrameRoot(frame)
    ELSE IF parent # NoParent THEN parent
    ELSE page

\* Lines 449-461.
get_locator_root(page, frame, parent) ==
    IF parent # NoParent THEN parent
    ELSE IF frame # NoFrame THEN FrameRoot(frame)
    ELSE page

\* One call of root.locator(...): who resolved, under which frame and
\* parent, and the root it got.
Resolve(who, frame, parent) ==
    [who |-> who, frame |-> frame, parent |-> parent,
     root |-> get_locator_root(PageRoot, frame, parent)]

\* get_key(d, key, default=...), lines 319-330, for the spellings of the
\* keys used here.
get_key(d, key, default) == IF key \in DOMAIN d THEN d[key] ELSE default

\* A step of a workflow is a dict, here a record of the keys it has.  The
\* "actions" key of a group holds the actions of the list read so far;
\* more tells that the list has further actions, which are read when the
\* loop reaches them.
Simple(type, ignore) ==
    IF ignore THEN [type |-> type, ignore |-> TRUE] ELSE [type |-> type]
\* A step with the type as the workflow writes it.
Raw(type, ignore) == [type |-> type, ignore |-> ignore]
\* A step without "type".
Untyped(ignore) ==
    IF ignore THEN [title |-> "t", ignore |-> TRUE] ELSE [title |-> "t"]
\* An action with its own "global" flag.
GlobalFlag(type, g) == [type |-> type, global |-> g]
Global(type) == [type |-> type, global |-> TRUE]
\* A click with an "if" condition.
ClickIf(ignore) == [type |-> "click", if |-> "cond", ignore |-> ignore]
Frame(target, ignore) == [type |-> "frame", name |-> target, ignore |-> ignore]
GroupAction(acts, more, ignore, group_global) ==
    [type |-> "group_action", actions |-> acts, more |-> more,
     ignore |-> ignore, global_actions |-> group_global]
GroupActionOne(acts, more, ignore, group_global, sel) ==
    [type |-> "group_action", actions |-> acts, more |-> more,
     ignore |-> ignore, global_actions |-> group_global,
     array_select_one |-> sel]
GroupExcel(acts, more, ignore) ==
    [type |-> "group_excel", file |-> "s.xlsx", actions |-> acts,
     more |-> more, ignore |-> ignore]

\* A write_excel action, with "write_from_col" or without.
WriteExcel(col, ignore) ==
    [type |-> "write_excel", write_from_col |-> col, ignore |-> ignore]
WriteExcelNoCol(ignore) == [type |-> "write_excel", ignore |-> ignore]
\* A group_excel step with "start_row".
GroupExcelFrom(acts, more, ignore, start_row) ==
    [type |-> "group_excel", file |-> "s.xlsx", actions |-> acts,
     more |-> more, ignore |-> ignore, start_row |-> start_row]

\* A step with "array_select_one".
Indexed(step, sel) == step @@ [array_select_one |-> sel]
\* A child of an array step's "click" list.
Child(ignore) == [tag |-> "a", ignore |-> ignore]
\* An array step with its "click" list.
ArrayStep(clicks, ignore) ==
    [type |-> "array", click |-> clicks, ignore |-> ignore]
\* A click with the "if" condition spelled out: its "status", if any, and
\* its "click" list.
Condition(status, clicks) ==
    IF status = "" THEN [click |-> clicks]
    ELSE [status |-> status, click |-> clicks]
ClickWhen(status, clicks, ignore) ==
    [type |-> "click", if |-> Condition(status, clicks), ignore |-> ignore]

\* A step with a "sleep" of one second.
WithSleep(step) == step @@ [sleep |-> 1]

\* The fields a download_from_link step may carry besides its locator:
\* the extension under one of its three keys, and the index.
DownloadFields ==
    {<<>>, [extension |-> <<"v", "t", "t">>], [ext |-> <<".", "S", "R", "T">>],
     [extension |-> <<>>, ext |-> <<"v", "t", "t">>],
     [file_extension |-> <<".", ".", "v", "t", "t">>],
     [extension |-> <<"?">>], [ext |-> <<"s", ":", "t", "r">>],
     [index |-> 12], [index |-> 0, extension |-> <<"p", "d", "f">>]}

\* The characters of the "type" values the workflows here are written
\* with.
Spell ==
    ( "goto" :> <<"g", "o", "t", "o">> @@
     "click" :> <<"c", "l", "i", "c", "k">> @@
     "select" :> <<"s", "e", "l", "e", "c", "t">> @@
     "group_excel" :> <<"g", "r", "o", "u", "p", "_", "e", "x", "c", "e", "l">> @@
     "array" :> <<"a", "r", "r", "a", "y">> @@
     "refresh" :> <<"r", "e", "f", "r", "e", "s", "h">> @@
     "group_action" :> <<"g", "r", "o", "u", "p", "_", "a", "c", "t", "i", "o", "n">> @@
     "frame" :> <<"f", "r", "a", "m", "e">> @@
     "main_frame" :> <<"m", "a", "i", "n", "_", "f", "r", "a", "m", "e">> @@
     "write" :> <<"w", "r", "i", "t", "e">> @@
     "use_last_tab" :> <<"u", "s", "e", "_", "l", "a", "s", "t", "_", "t", "a", "b">> @@
     "scroll" :> <<"s", "c", "r", "o", "l", "l">> @@
     "download_from_link" :> <<"d", "o", "w", "n", "l", "o", "a", "d", "_", "f", "r", "o", "m", "_", "l", "i", "n", "k">> @@
     "write_excel" :> <<"w", "r", "i", "t", "e", "_", "e", "x", "c", "e", "l">> @@
     "hover" :> <<"h", "o", "v", "e", "r">> @@
     "" :> <<>> @@
     " Click" :> <<" ", "C", "l", "i", "c", "k">> @@
     "HOVER" :> <<"H", "O", "V", "E", "R">> @@
     "Goto " :> <<"G", "o", "t", "o", " ">> @@
     " " :> <<" ">>)

\* The step types as the workflow has them, with capitals and blanks.
RawTypes == {" Click", "HOVER", "Goto ", " "}

\* The "type" values compared as they are written.
stype_exact == [stype \in DOMAIN Spell |-> stype]

\* str(stype).strip().lower(), lines 1589, 235 and 1393: the type value
\* written with the characters that are left.
stype_l ==
    [stype \in DOMAIN Spell |->
        CHOOSE t \in DOMAIN Spell : Spell[t] = Lower(Strip(Spell[stype]))]

\* The keys the dispatchers and executors read.
HasType(step) == get_key(step, "type", "") # ""
StepType(step) == stype_l[get_key(step, "type", "")]
Ignore(step) == get_key(step, "ignore", FALSE)
Actions(step) == get_key(step, "actions", <<>>)
More(step) == get_key(step, "more", FALSE)
\* step_sleep(get_key(step, "sleep")), lines 428-436, sleeps.
HasSleep(step) == get_key(step, "sleep", 0) > 0

\* The top-level dispatcher with a branch for write_excel.
RunTypesWithWriteExcel ==
    {"goto", "click", "select", "group_excel", "array", "refresh",
     "group_action", "frame", "main_frame", "write", "use_last_tab",
     "scroll", "download_from_link", "write_excel"}

\* The step types each dispatcher knows: run (lines 1591-1618),
\* exec_step_group_action (lines 1408-1434) and exec_step_group_excel
\* (lines 241-274).
RunTypes ==
    {"goto", "click", "select", "group_excel", "array", "refresh",
     "group_action", "frame", "main_frame", "write", "use_last_tab",
     "scroll", "download_from_link"}
GroupActionTypes ==
    {"click", "write", "scroll", "array", "group_action",
     "download_from_link", "use_last_tab", "goto", "frame", "main_frame"}
GroupExcelTypes ==
    {"write_excel", "click", "write", "scroll", "array", "group_action",
     "download_from_link", "use_last_tab", "goto", "frame", "main_frame",
     "refresh", "select"}

\* The executors that call get_locator_root.
LocatingTypes ==
    {"click", "write", "write_excel", "select", "scroll", "array",
     "download_from_link"}
\* Those of them that can end before they reach that call: write (line
\* 721), write_excel (lines 100-103), select (lines 583-588), scroll (lines
\* 942-953).
EarlyExitTypes == {"write", "write_excel", "select", "scroll"}

\* The step types a workflow is written with; "hover" is a type no
\* dispatcher knows.
StepTypes == RunTypes \cup {"write_excel", "hover"}

\* Nested actions: the steps a group's "actions" list is made of.
PlainActions ==
    {Simple("click", FALSE), Simple("goto", FALSE), Frame("f1", FALSE),
     Simple("main_frame", FALSE), Simple("refresh", FALSE)}
InnerGroups ==
    {GroupAction(<<Untyped(FALSE), Simple("goto", FALSE),
                   Frame("f1", TRUE), Simple("click", TRUE),
                   Global("click"), Simple("write_excel", TRUE)>>,
                 FALSE, FALSE, FALSE)}
NestedActions == PlainActions \cup InnerGroups

\* The steps run takes from the workflow; a group's list is empty or read
\* action by action.
TopSteps ==
    {Simple(t, i) : t \in StepTypes \ {"frame", "group_action", "group_excel"},
                    i \in BOOLEAN}
      \cup {Untyped(i) : i \in BOOLEAN}
      \cup {ClickIf(i) : i \in BOOLEAN}
      \cup {Frame(t, i) : t \in FrameTargets, i \in BOOLEAN}
      \cup {Simple("frame", i) : i \in BOOLEAN}
      \cup {GroupAction(<<>>, m, i, g) :
                m \in BOOLEAN, i \in BOOLEAN, g \in BOOLEAN}
      \cup {GroupActionOne(<<>>, m, i, g, s) :
                m \in BOOLEAN, i \in BOOLEAN, g \in BOOLEAN,
                s \in {0, MaxParents}}
      \cup {GroupExcel(<<>>, m, i) : m \in BOOLEAN, i \in BOOLEAN}

\* ------------------------------------------------------------------------
\* The workflow interpreter: the spreadsheet
\* ------------------------------------------------------------------------
\* A sheet is the sequence of its rows, a row the sequence of its cell
\* values: None for an empty cell, or a text.
\* Lines 66-67: str(cell) if cell is not None else "".
CleanRow(row) ==
    [i \in 1..Len(row) |-> IF row[i].some THEN row[i].s ELSE <<>>]

\* Lines 71: all(c.strip() == "" for c in clean_row).
IsBlankRow(clean_row) ==
    \A i \in 1..Len(clean_row) : Strip(clean_row[i]) = <<>>

\* The loop of load_excel_rows, lines 62-79, from the row at idx on.
RECURSIVE ScanRows(_, _, _, _)
ScanRows(sheet, idx, start_row, rows) ==
    IF idx > Len(sheet) THEN rows
    ELSE IF idx < start_row THEN ScanRows(sheet, idx + 1, start_row, rows)
    ELSE IF IsBlankRow(CleanRow(sheet[idx])) THEN rows
    ELSE ScanRows(sheet, idx + 1, start_row,
                  Append(rows, CleanRow(sheet[idx])))

\* The loop of load_excel_rows going on after a blank row.
RECURSIVE ScanRowsPastBlank(_, _, _, _)
ScanRowsPastBlank(sheet, idx, start_row, rows) ==
    IF idx > Len(sheet) THEN rows
    ELSE IF idx < start_row \/ IsBlankRow(CleanRow(sheet[idx]))
    THEN ScanRowsPastBlank(sheet, idx + 1, start_row, rows)
    ELSE ScanRowsPastBlank(sheet, idx + 1, start_row,
                           Append(rows, CleanRow(sheet[idx])))

\* load_excel_rows reading on after a blank row.
load_excel_rows_past_blank(sheet, start_row) ==
    ScanRowsPastBlank(sheet, 1, start_row, <<>>)

\* load_excel_rows, lines 47-88, for a file that exists.
load_excel_rows(sheet, start_row) == ScanRows(sheet, 1, start_row, <<>>)

\* Line 201: to_int_or_none(get_key(step, "start_row")) or 2.
StartRow(step) ==
    IF get_key(step, "start_row", 0) = 0 THEN 2 ELSE step.start_row

\* The rows of the sheets.
HeaderRow == <<Some(<<"h">>), Some(<<"k">>)>>
DataRows ==
    <<  <<Some(<<"a">>), Some(<<"b">>)>>,
        <<None, Some(<<"c">>)>>,
        <<Some(<<"d">>)>>,
        <<Some(<<"e">>), Some(<<" ">>)>>  >>
BlankRows == {<<>>, <<None, Some(<<>>)>>, <<Some(<<" ">>), None>>}

\* The sheets with k data rows, then the end of the sheet, or a blank row
\* and possibly a data row after it.
SheetsWith(k) ==
    LET head == <<HeaderRow>> \o SubSeq(DataRows, 1, k)
    IN  {head}
          \cup {Append(head, b) : b \in BlankRows}
          \cup {head \o <<b, DataRows[k + 1]>> : b \in BlankRows}

ExcelSheets == UNION {SheetsWith(k) : k \in 0..MaxRows}

\* The sheets of the workflows that do not look at the cells: k rows that
\* are alike.
PlainSheets ==
    {<<HeaderRow>> \o [i \in 1..k |-> DataRows[1]] : k \in 0..MaxRows}

\* ------------------------------------------------------------------------
\* The workflow interpreter: executors and dispatch
\* ------------------------------------------------------------------------
\* What the browser, the page and the spreadsheet do to one executor: ok -
\* the executor's own work succeeds; early - it ends before it resolves a
\* locator; met - the outcome of a click's condition; alts - the number of
\* alternative clicks of the condition; total - the number of matched
\* parents, or of data rows; count - the number of elements the step's
\* locator matches; fails - the child clicks of an array step that fail,
\* by their position in the order they are tried in, or the click of a
\* condition's list that raises.
Env(ok, early, met, alts, total) ==
    [ok |-> ok, early |-> early, met |-> met, alts |-> alts, total |-> total,
     count |-> 1, fails |-> {}]

\* The environment with the locator matching count elements.
Matching(env, count) == [env EXCEPT !.count = count]

\* The spreadsheet file of a group_excel step holds this sheet.
EnvSheet(sheet) == Env(TRUE, FALSE, "none", 0, 0) @@ [sheet |-> sheet]

\* The sheets the spreadsheet file can hold.
SheetsOf(w) == IF w = "passes" THEN ExcelSheets ELSE PlainSheets

\* check_condition, lines 465-503, for a condition that matches count
\* elements: the condition is met or not, or the call raises, before
\* (no_status) or after it has counted.
check_condition_found_only(condition, count) ==
    LET status == get_key(condition, "status", "")
    IN  IF status = "" THEN "no_status"
        ELSE IF status \in {"found", "not_found"}
        THEN (IF count > 0 THEN "met" ELSE "not_met")
        ELSE "raise"

check_condition(condition, count) ==
    LET status == get_key(condition, "status", "")
    IN  IF status = "" THEN "no_status"
        ELSE IF status = "found"
        THEN (IF count > 0 THEN "met" ELSE "not_met")
        ELSE IF status = "not_found"
        THEN (IF count = 0 THEN "met" ELSE "not_met")
        ELSE "raise"

\* The environments of a step whose locators match zero to MaxParents
\* elements: the condition of a click ends as check_condition computes it
\* (cond_count elements match it), and each child click of an array step
\* fails or not.
CountedEnvFor(step) ==
    LET type == StepType(step)
        Counts == 0..MaxParents
    IN  IF type = "click" /\ "if" \in DOMAIN step
        THEN UNION {LET met == check_condition(step["if"], c)
                        alts == Len(get_key(step["if"], "click", <<>>))
                        e == Matching(Env(ok, met = "no_status",
                                          IF met = "no_status" THEN "none"
                                          ELSE met,
                                          alts, 0), k)
                               @@ [cond_count |-> c]
                    IN  IF met = "met" /\ ~ok
                        THEN {[e EXCEPT !.fails = {p}] : p \in 1..alts}
                        ELSE {e} :
                      c \in 0..1, k \in Counts, ok \in BOOLEAN}
        ELSE IF type = "array" /\ "click" \in DOMAIN step
        THEN UNION {{[Env(TRUE, FALSE, "none", 0, n) EXCEPT !.fails = F] :
                       F \in SUBSET (1..(n * Len(step.click)))} :
                    n \in Counts}
        ELSE IF type = "group_action"
        THEN {Env(TRUE, FALSE, "none", 0, n) : n \in Counts}
        ELSE IF type = "group_excel"
        THEN {EnvSheet(s) : s \in {t \in PlainSheets : Len(t) = 2}}
        ELSE IF type \in LocatingTypes
        THEN {Matching(Env(ok, FALSE, "none", 0, 0), k) :
                ok \in BOOLEAN, k \in Counts}
               \cup (IF type \in EarlyExitTypes
                     THEN {Env(type = "scroll", TRUE, "none", 0, 0)}
                     ELSE {})
        ELSE {Env(TRUE, FALSE, "none", 0, 0)}

\* Where a call of download_subtitle_direct can raise, in the order of its
\* lines: new_page (1093), add_init_script (1096), goto (1105), evaluate
\* (1106), content (1121, 1128), the debug file (1140), the opening of the
\* file (1147), the writing of it (1148), getsize (1151).
RaisingCalls ==
    <<"new_page", "add_init_script", "goto", "evaluate", "content",
      "debug", "open", "write", "getsize">>
CallOrder(call) == CHOOSE i \in 1..Len(RaisingCalls) : RaisingCalls[i] = call

\* download_requests, lines 1004-1038.  What one GET of the loop meets:
\* the status of the answer (0: session.get raised, lines 1035-1037) and,
\* for an accepted status, what becomes of the body: "whole" - written to
\* the end; "unopened" - open(out_path, "wb") raised; "cut" - the file was
\* opened and the stream or a write raised.
Got(status, stream) == [status |-> status, stream |-> stream]
NoAnswer == Got(0, "none")
\* retries=3, line 1004.
Retries == 3
\* Line 1025.
OkStatuses == {200, 202, 206}

\* What the pages and the files do to one call of download_subtitle_direct:
\* raises - the call that raises ("none": none does); response - goto
\* returns a response; length - the length of the text extracted.
Fetch(raises, response, length) ==
    [raises |-> raises, response |-> response, length |-> length]

\* The start of the parameter read at line 1235.
FileExtensionEq ==
    <<"f", "i", "l", "e", "E", "x", "t", "e", "n", "s", "i", "o", "n", "=">>

\* A URL as urlparse splits it (line 1232).
Url(path, query) == [path |-> path, query |-> query]

\* The environment of a download_from_link step: the link's URL, the title
\* of the page, and what the two downloads do.
Download(env, href, title, fetch) ==
    env @@ [href |-> href, title |-> title, fetch |-> fetch,
            direct |-> <<Got(200, "whole"), NoAnswer, NoAnswer>>]
\* The same with other answers to the GETs of download_requests.
Answered(env, outcomes) == [env EXCEPT !.direct = outcomes]

\* The links, titles and fetches a download_from_link step can meet.
Paths ==
    {<<"/", "a">>, <<"/", "a", ".", "v", "t", "t">>,
     <<"/", "a", ".", "S", "R", "T">>, <<"/", "a", ".", "s", "t", "r">>,
     <<"/", "a", ".", "b", "/", "c">>, <<"/", "a", ".">>}
Queries ==
    {<<>>, FileExtensionEq \o <<"v", "t", "t">>, FileExtensionEq,
     <<"x", "=", "1", "&">> \o FileExtensionEq \o <<".", "s", "r", "t">>,
     FileExtensionEq \o <<"a", "=", "b">>}
Titles ==
    {<<>>, <<"T">>, <<" ", "a", " ", "b", " ">>, <<" ">>,
     <<"a", "/", "b", ":", "c", "?">>, <<"<", "\\", "|", ">", "*", "\"">>}
Fetches ==
    {Fetch(RaisingCalls[i], TRUE, 10) : i \in 1..Len(RaisingCalls)}
      \cup {Fetch(r, TRUE, 9) : r \in {"none", "debug", "write"}}
      \cup {Fetch("none", FALSE, 10), Fetch("content", FALSE, 10),
            Fetch("none", TRUE, 0), Fetch("none", TRUE, 10)}
PlainFetch == Fetch("none", TRUE, 10)
Refused == <<Got(404, "whole"), NoAnswer, Got(204, "whole")>>
DirectRuns ==
    {Refused,
     <<Got(404, "whole"), Got(206, "whole"), NoAnswer>>,
     <<Got(200, "cut"), Got(200, "unopened"), NoAnswer>>}
FailingFetches ==
    {Fetch("none", FALSE, 10), Fetch("none", TRUE, 9),
     Fetch("goto", TRUE, 10), Fetch("write", TRUE, 10),
     Fetch("getsize", TRUE, 10)}

\* The environments of a download_from_link step: each of the link, the
\* title and the fetch varies while the other two stay plain, for a step
\* with no field of its own; a step that names its extension meets fewer
\* links, one that names its download_dir a plain link only.
DownloadEnvFor(step) ==
    LET found == Matching(Env(TRUE, FALSE, "none", 0, 0), 1)
        vtt == Url(<<"/", "a", ".", "v", "t", "t">>, <<>>)
        plain == DOMAIN step \subseteq {"type", "ignore"}
    IN  {Download(Matching(Env(ok, FALSE, "none", 0, 0), k),
                  Url(<<"/", "a">>, <<>>), <<"T">>, PlainFetch) :
           ok \in BOOLEAN, k \in 0..1}
        \cup {Download(found, vtt, <<"T">>, Fetch(r, TRUE, 10)) :
                r \in {"none", "goto"}}
        \cup {Answered(Download(found, vtt, <<"T">>,
                                Fetch("goto", TRUE, 10)), Refused)}
        \cup (IF "download_dir" \in DOMAIN step THEN {}
              ELSE {Download(found, Url(<<"/", "a", ".", "S", "R", "T">>, q),
                             <<"T">>, PlainFetch) : q \in Queries})
        \cup (IF ~plain THEN {}
              ELSE {Download(found, Url(p, q), <<"T">>, PlainFetch) :
                      p \in Paths, q \in Queries}
                   \cup {Download(found, vtt, t, PlainFetch) : t \in Titles}
                   \cup {Download(found, vtt, <<"T">>, f) : f \in Fetches}
                   \cup {Answered(Download(found, vtt, <<"T">>, f), g) :
                           f \in FailingFetches \cup {PlainFetch},
                           g \in DirectRuns}
                   \cup {Answered(Download(found, Url(<<"/", "a">>, <<>>),
                                           <<"T">>, PlainFetch), g) :
                           g \in DirectRuns})

EnvFor(step) ==
    LET type == StepType(step)
    IN  IF watch = "index" THEN CountedEnvFor(step)
        ELSE IF watch = "download" /\ type = "download_from_link"
        THEN DownloadEnvFor(step)
        ELSE IF type = "group_action"
        THEN {Env(FALSE, FALSE, "none", 0, 0)}
               \cup {Env(TRUE, FALSE, "none", 0, n) : n \in 0..MaxParents}
        ELSE IF type = "group_excel"
        THEN {Env(FALSE, FALSE, "none", 0, 0)}
               \cup {EnvSheet(s) : s \in
                        {t \in SheetsOf(watch) :
                           Len(load_excel_rows(t, StartRow(step)))
                             <= MaxRows}}
        ELSE IF type = "click" /\ "if" \in DOMAIN step
        THEN {Env(FALSE, TRUE, "none", 0, 0),
              Env(FALSE, FALSE, "raise", 0, 0), Env(TRUE, FALSE, "met", 0, 0)}
               \cup {Env(ok, FALSE, "met", 1, 0) : ok \in BOOLEAN}
               \cup {Env(ok, FALSE, "not_met", 0, 0) : ok \in BOOLEAN}
        ELSE IF type \in LocatingTypes
        THEN {Env(ok, FALSE, "none", 0, 0) : ok \in BOOLEAN}
               \cup (IF type \in EarlyExitTypes
                     THEN {Env(type = "scroll", TRUE, "none", 0, 0),
                           Env(FALSE, TRUE, "none", 0, 0)}
                     ELSE {})
        ELSE IF type \in {"goto", "frame", "refresh", "use_last_tab"}
        THEN {Env(ok, FALSE, "none", 0, 0) : ok \in BOOLEAN}
        ELSE {Env(TRUE, FALSE, "none", 0, 0)}

\* A call of a group executor in progress: its arguments (current_frame,
\* parent), the keys of its step (of "actions", what has been read of it),
\* its locals (parents, local_frame), the parent indices or rows still to
\* process (the first is the current one) and the position j of the
\* current action; for a run watched for its passes, the number of passes
\* over the actions the call has logged, and all its parent indices or
\* rows.
Activation(kind, step, frame, parent, parents, indices) ==
    [kind |-> kind, actions |-> Actions(step), more |-> More(step),
     ignore |-> Ignore(step),
     global_actions |-> get_key(step, "global_actions", FALSE),
     current_frame |-> frame,
     parent |-> parent, parents |-> parents, indices |-> indices,
     j |-> 1, local_frame |-> frame, sleep |-> HasSleep(step),
     passes |-> IF watch \in {"passes", "index"} THEN 1 ELSE 0,
     all |-> IF watch \in {"passes", "index"} THEN indices ELSE <<>>,
     total |-> 0, sheet |-> <<>>, from |-> 0]

\* The call with what its executor counted or loaded before its loop: the
\* number of parents matched, or the sheet and the row the rows were
\* loaded from.
Counted(act, total, sheet, from) ==
    IF watch \in {"passes", "index"}
    THEN [act EXCEPT !.total = total, !.sheet = sheet, !.from = from]
    ELSE act

NoActivation == <<>>

\* What a dispatched step did: whether its executor returned normally, the
\* dispatcher's frame after it, the locators it resolved, and the group
\* call it started (push) if it is a group with iterations to run.
Returned(ok, frame, rs) ==
    [ok |-> ok, frame |-> frame, resolved |-> rs,
     push |-> FALSE, act |-> NoActivation]
Entered(frame, rs, act) ==
    [ok |-> TRUE, frame |-> frame, resolved |-> rs,
     push |-> TRUE, act |-> act]

\* The dispatcher's frame after a step, with refresh resetting it.
FrameAfterRefreshResets(type, ok, target, frame) ==
    IF ok /\ type \in {"goto", "main_frame", "refresh"} THEN NoFrame
    ELSE IF ok /\ type = "frame" THEN target
    ELSE frame

\* The dispatcher's frame after a step, with the assignment made whether
\* or not the executor raised.
FrameAfterFailure(type, ok, target, frame) ==
    IF type \in {"goto", "main_frame"} THEN NoFrame
    ELSE IF ok /\ type = "frame" THEN target
    ELSE IF type = "frame" THEN NoFrame
    ELSE frame

\* The dispatcher's frame after a step: lines 1592-1610 of run, 1428-1434
\* of exec_step_group_action, 263-272 of exec_step_group_excel.  The
\* assignment is not reached when the executor raises.
FrameAfter(type, ok, target, frame) ==
    IF ok /\ type \in {"goto", "main_frame"} THEN NoFrame
    ELSE IF ok /\ type = "frame" THEN target
    ELSE frame

\* The indices counted from one.
RangeFromOne(n) == [i \in 1..n |-> i]

\* list(range(n))
Range(n) == [i \in 1..n |-> i - 1]

\* The test of array_select_one against the number of matches, lines
\* 376-393 of wait_and_click (and 137-151, 598-614, 746-765, 969-988,
\* 1193-1213 of the executors): the executor goes on to the element
\* ("nth"), returns with a warning or raises.
index_check_without_zero(step, count) ==
    LET idx == get_key(step, "array_select_one", 0)
    IN  IF idx < 0 \/ idx > count
        THEN (IF Ignore(step) THEN "return" ELSE "raise")
        ELSE "nth"

index_check(step, count) ==
    LET idx == get_key(step, "array_select_one", 0)
    IN  IF count = 0 \/ idx < 0 \/ idx >= count
        THEN (IF Ignore(step) THEN "return" ELSE "raise")
        ELSE "nth"

\* What an executor that has located its element did: checked is the
\* outcome of the test of the index, acted whether it went on to act on
\* the element and succeeded.
Located(checked, ok, frame, rs) ==
    [ok |-> checked = "nth" /\ ok, frame |-> frame, resolved |-> rs,
     push |-> FALSE, act |-> NoActivation,
     checked |-> checked, acted |-> checked = "nth" /\ ok]

\* What a click did: outer tells whether the step's own click was tried,
\* after the test of its index, alt how many clicks of the condition's
\* list were.
OuterClick(checked, ok, frame, rs) ==
    [ok |-> checked = "nth" /\ ok, frame |-> frame, resolved |-> rs,
     push |-> FALSE, act |-> NoActivation,
     checked |-> checked, acted |-> checked = "nth" /\ ok,
     outer |-> TRUE, alt |-> 0]
ListedClicks(ok, frame, rs, alt) ==
    [ok |-> ok, frame |-> frame, resolved |-> rs,
     push |-> FALSE, act |-> NoActivation, outer |-> FALSE, alt |-> alt]

\* exec_step_click, lines 653-713, with check_condition, lines 465-503.
exec_step_click(step, frame, parent, env) ==
    LET cond == Resolve("if", frame, parent)
        click == Resolve("click", frame, parent)
        checked == index_check(step, env.count)
        tried == IF env.fails = {} THEN env.alts
                 ELSE CHOOSE p \in env.fails : \A q \in env.fails : p <= q
    IN  IF "if" \notin DOMAIN step
        THEN OuterClick(checked, env.ok, frame, <<click>>)
        ELSE IF env.early
        THEN ListedClicks(FALSE, frame, <<>>, 0)
        ELSE IF env.met = "raise"
        THEN ListedClicks(FALSE, frame, <<cond>>, 0)
        ELSE IF env.met = "met"
        THEN ListedClicks(env.alts = 0 \/ env.ok, frame,
                          <<cond>> \o [i \in 1..tried |-> click], tried)
        ELSE OuterClick(checked, env.ok, frame, <<cond, click>>)

\* The other executors that locate an element: exec_step_write,
\* _write_excel, _select, _scroll, _array, _download_from_link.
exec_step_locating(step, frame, parent, env) ==
    IF StepType(step) \in EarlyExitTypes /\ env.early
    THEN Returned(StepType(step) = "scroll" /\ env.ok, frame, <<>>)
    ELSE Located(index_check(step, env.count), env.ok, frame,
                 <<Resolve(StepType(step), frame, parent)>>)

\* exec_step_array, lines 790-892, for a step with its "click" list: the
\* child clicks are tried parent by parent and, for a parent, in list
\* order, up to the first one that fails without the child's ignore;
\* visits are the clicks tried.
exec_step_array(step, frame, parent, env) ==
    LET root == Resolve("array", frame, parent)
        one == "array_select_one" \in DOMAIN step
        parent_idx == get_key(step, "array_select_one", 0)
        parent_indices == IF one THEN <<parent_idx>> ELSE Range(env.total)
        clicks == get_key(step, "click", <<>>)
        n == Len(clicks)
        last_pos == Len(parent_indices) * n
        ParentAt(p) == parent_indices[((p - 1) \div n) + 1]
        ChildAt(p) == ((p - 1) % n) + 1
        raising == {p \in 1..last_pos :
                      p \in env.fails /\ ~Ignore(clicks[ChildAt(p)])}
        stop == IF raising = {} THEN last_pos
                ELSE CHOOSE p \in raising : \A q \in raising : p <= q
        none == [visits |-> <<>>, indices |-> <<>>]
    IN  IF env.total = 0
        THEN Returned(Ignore(step), frame, <<root>>)
               @@ [checked |-> IF Ignore(step) THEN "return" ELSE "raise"]
               @@ none
        ELSE IF one /\ (parent_idx < 0 \/ parent_idx >= env.total)
        THEN Returned(Ignore(step), frame, <<root>>)
               @@ [checked |-> IF Ignore(step) THEN "return" ELSE "raise"]
               @@ none
        ELSE IF clicks = <<>>
        THEN Returned(FALSE, frame, <<root>>) @@ [checked |-> "nth"] @@ none
        ELSE Returned(raising = {}, frame, <<root>>)
               @@ [checked |-> "nth", indices |-> parent_indices,
                   visits |-> [p \in 1..stop |->
                                 [parent |-> ParentAt(p), child |-> ChildAt(p),
                                  clicked |-> p \notin env.fails]]]

\* exec_step_group_action up to its loop, lines 1310-1364.
exec_step_group_action(step, frame, parent, env) ==
    LET root == Resolve("group_action", frame, parent)
        one == "array_select_one" \in DOMAIN step
        parent_idx == get_key(step, "array_select_one", 0)
    IN  IF ~env.ok THEN Returned(FALSE, frame, <<root>>)
        ELSE IF env.total = 0
        THEN Returned(Ignore(step), frame, <<root>>)
               @@ [checked |-> IF Ignore(step) THEN "return" ELSE "raise"]
        ELSE IF one /\ (parent_idx < 0 \/ parent_idx >= env.total)
        THEN Returned(Ignore(step), frame, <<root>>)
               @@ [checked |-> IF Ignore(step) THEN "return" ELSE "raise"]
        ELSE IF Actions(step) = <<>> /\ ~More(step)
        THEN Returned(FALSE, frame, <<root>>)
        ELSE Entered(frame, <<root>>,
                     Counted(Activation("group_action", step, frame, parent,
                                        root.root,
                                        IF one THEN <<parent_idx>>
                                        ELSE Range(env.total)),
                             env.total, <<>>, 0))

\* exec_step_group_excel up to its loop, lines 200-216.  The rows
\* load_excel_rows returns hold no blank row (lines 71-76), so the test of
\* line 222 never ends the loop.
exec_step_group_excel(step, frame, parent, env) ==
    IF "file" \notin DOMAIN step \/ (Actions(step) = <<>> /\ ~More(step))
         \/ ~env.ok
    THEN Returned(FALSE, frame, <<>>)
    ELSE LET rows == load_excel_rows(env.sheet, StartRow(step))
         IN  IF rows = <<>> THEN Returned(TRUE, frame, <<>>)
             ELSE Entered(frame, <<>>,
                          Counted(Activation("group_excel", step, frame,
                                             parent, NoParent, rows),
                                  Len(rows), env.sheet, StartRow(step)))

\* exec_step_write_excel taking the cell at position col_index of the row
\* counted from zero.
exec_step_write_excel_one_off(step, current_row, frame, parent, env) ==
    IF "write_from_col" \notin DOMAIN step \/ step.write_from_col < 1
    THEN Returned(FALSE, frame, <<>>)
           @@ [value |-> None, typed |-> None, warned |-> FALSE]
    ELSE LET col_index == step.write_from_col
             found == col_index < Len(current_row)
             cell_value == IF found THEN current_row[col_index + 1] ELSE <<>>
         IN  Returned(env.ok, frame, <<Resolve("write_excel", frame, parent)>>)
               @@ [value |-> Some(cell_value),
                   typed |-> IF env.ok THEN Some(cell_value) ELSE None,
                   warned |-> ~found]

\* exec_step_write_excel, lines 92-166: value is the text it takes from
\* the row, typed what it has typed into the element.
exec_step_write_excel(step, current_row, frame, parent, env) ==
    IF "write_from_col" \notin DOMAIN step \/ step.write_from_col < 1
    THEN Returned(FALSE, frame, <<>>)
           @@ [value |-> None, typed |-> None, warned |-> FALSE]
    ELSE LET col_index == step.write_from_col
             found == col_index - 1 < Len(current_row)
             cell_value == IF found THEN current_row[col_index] ELSE <<>>
             checked == index_check(step, env.count)
         IN  Located(checked, env.ok, frame,
                     <<Resolve("write_excel", frame, parent)>>)
               @@ [value |-> Some(cell_value),
                   typed |-> IF checked = "nth" /\ env.ok
                             THEN Some(cell_value) ELSE None,
                   warned |-> ~found]

\* ------------------------------------------------------------------------
\* Downloads
\* ------------------------------------------------------------------------
\* The characters of the class [\\/*?:"<>|] (lines 443 and 1245).
UnsafeChars == {"\\", "/", "*", "?", ":", "\"", "<", ">", "|"}

\* re.sub(r'[\\/*?:"<>|]', "_", s) and re.sub(r'[\\/*?:"<>|]', "", s)
Replaced(s) == [i \in 1..Len(s) |-> IF s[i] \in UnsafeChars THEN "_" ELSE s[i]]
NotUnsafe(c) == c \notin UnsafeChars
Removed(s) == SelectSeq(s, NotUnsafe)

\* str.startswith(p)
HasPrefix(s, p) == Len(s) >= Len(p) /\ SubSeq(s, 1, Len(p)) = p

\* str.split(sep) for a separator of one character: the pieces between
\* the separators, empty ones included.
RECURSIVE SplitAtFrom(_, _, _)
SplitAtFrom(s, sep, piece) ==
    IF s = <<>> THEN <<piece>>
    ELSE IF Head(s) = sep THEN <<piece>> \o SplitAtFrom(Tail(s), sep, <<>>)
    ELSE SplitAtFrom(Tail(s), sep, Append(piece, Head(s)))
SplitAt(s, sep) == SplitAtFrom(s, sep, <<>>)

\* str(n) for a natural number.
DigitOf(n) ==
    CASE n = 0 -> "0" [] n = 1 -> "1" [] n = 2 -> "2" [] n = 3 -> "3"
      [] n = 4 -> "4" [] n = 5 -> "5" [] n = 6 -> "6" [] n = 7 -> "7"
      [] n = 8 -> "8" [] n = 9 -> "9"
RECURSIVE Str(_)
Str(n) == IF n < 10 THEN <<DigitOf(n)>> ELSE Append(Str(n \div 10), DigitOf(n % 10))

\* make_safe_filename, lines 439-446.
make_safe_filename_unstripped(name, default, ext) ==
    LET base == Replaced(IF name # <<>> THEN name ELSE default)
    IN  IF ext # <<>> /\ ~EndsWith(Lower(base), Lower(ext))
        THEN base \o ext ELSE base

make_safe_filename(name, default, ext) ==
    LET base == Replaced(IF Strip(name) # <<>> THEN Strip(name) ELSE default)
    IN  IF ext # <<>> /\ ~EndsWith(Lower(base), Lower(ext))
        THEN base \o ext ELSE base

\* os.path.join(dir, name) on a POSIX system.
PathJoin(dir, name) ==
    IF HasPrefix(name, <<"/">>) THEN name
    ELSE IF dir = <<>> \/ EndsWith(dir, <<"/">>) THEN dir \o name
    ELSE dir \o <<"/">> \o name

\* get_key(step, "extension", "file_extension", "ext"), line 1179; the
\* empty text stands for None as well, both being false at line 1231.
GivenExtension(step) ==
    IF "extension" \in DOMAIN step THEN step.extension
    ELSE IF "file_extension" \in DOMAIN step THEN step.file_extension
    ELSE get_key(step, "ext", <<>>)

\* Lines 1233-1237: the text between the first and the second "=" of the
\* first parameter of the query that starts with fileExtension=.
RECURSIVE QueryExtension(_)
QueryExtension(params) ==
    IF params = <<>> THEN <<>>
    ELSE IF HasPrefix(Head(params), FileExtensionEq)
    THEN SplitAt(Head(params), "=")[2]
    ELSE QueryExtension(Tail(params))

\* Lines 1239-1242: the last piece of the path, split at ".".
PathExtension(path) ==
    IF \E i \in 1..Len(path) : path[i] = "."
    THEN SplitAt(path, ".")[Len(SplitAt(path, "."))]
    ELSE <<>>

DotMp4 == <<".", "m", "p", "4">>

\* Lines 1243-1250: the extension without the unsafe characters, in lower
\* case, with a "." put before it unless it starts with one.
CleanExtensionAlwaysDotted(ext) ==
    IF ext # <<>> THEN <<".">> \o Lower(Removed(ext)) ELSE DotMp4

CleanExtension(ext) ==
    IF ext # <<>>
    THEN (IF HasPrefix(Lower(Removed(ext)), <<".">>)
          THEN Lower(Removed(ext))
          ELSE <<".">> \o Lower(Removed(ext)))
    ELSE DotMp4

\* Lines 1230-1250: the extension of the file to write, for the step and
\* the link's URL as urlparse splits it.
file_extension(step, url) ==
    LET given == GivenExtension(step)
        query == QueryExtension(SplitAt(url.query, "&"))
    IN  CleanExtension(IF given # <<>> THEN given
                       ELSE IF query # <<>> THEN query
                       ELSE PathExtension(url.path))

\* Lines 1252-1259: the extension is one of subtitle_extensions.
Srt == <<"s", "r", "t">>
Vtt == <<"v", "t", "t">>
subtitle_extensions == {Vtt, <<"s", "t", "r">>}
is_subtitle(ext) ==
    LET clean_extension == Lower(Strip(ext))
    IN  (IF HasPrefix(clean_extension, <<".">>) THEN Tail(clean_extension)
         ELSE clean_extension) \in subtitle_extensions

\* Lines 1261-1264: the path of the file to write.
out_path(step, title, ext) ==
    LET page_title == IF title # <<>> THEN title
                      ELSE <<"d", "o", "w", "n", "l", "o", "a", "d">>
        safe_title == make_safe_filename(page_title,
                          <<"d", "o", "w", "n", "l", "o", "a", "d">>, <<>>)
    IN  PathJoin(get_key(step, "download_dir", <<"d">>),
                 safe_title \o <<"_">> \o Str(get_key(step, "index", 1)) \o ext)

\* download_requests, lines 1004-1038: the call before its first attempt,
\* with the file at out_path as it is.
Requested(file) ==
    [attempt |-> 0, file |-> file, sleeps |-> 0, result |-> "none"]
NotRequested ==
    [attempt |-> 0, file |-> "none", sleeps |-> 0, result |-> "none"]

\* Mutant of Attempt: an answer of any status is written.
AttemptAnyStatus(st, o) ==
    IF o.status = 0
    THEN [st EXCEPT !.attempt = @ + 1, !.sleeps = @ + 1]
    ELSE CASE o.stream = "unopened" ->
                [st EXCEPT !.attempt = @ + 1, !.sleeps = @ + 1]
           [] o.stream = "cut" ->
                [st EXCEPT !.attempt = @ + 1, !.sleeps = @ + 1,
                           !.file = "partial"]
           [] OTHER ->
                [st EXCEPT !.attempt = @ + 1, !.file = "whole",
                           !.result = "true"]

\* Lines 1017-1037: one pass of the loop, for what the GET meets.
Attempt(st, o) ==
    IF o.status \notin OkStatuses
    THEN [st EXCEPT !.attempt = @ + 1, !.sleeps = @ + 1]
    ELSE CASE o.stream = "unopened" ->
                [st EXCEPT !.attempt = @ + 1, !.sleeps = @ + 1]
           [] o.stream = "cut" ->
                [st EXCEPT !.attempt = @ + 1, !.sleeps = @ + 1,
                           !.file = "partial"]
           [] OTHER ->
                [st EXCEPT !.attempt = @ + 1, !.file = "whole",
                           !.result = "true"]

\* Line 1038: the loop is over without a return.
GaveUp(st) == [st EXCEPT !.result = "false"]

\* The whole call, for what its GETs meet in turn.
RECURSIVE RequestsFrom(_, _)
RequestsFrom(st, outcomes) ==
    IF st.result # "none" THEN st
    ELSE IF st.attempt >= Retries THEN GaveUp(st)
    ELSE RequestsFrom(Attempt(st, outcomes[st.attempt + 1]), outcomes)
download_requests(outcomes, file) == RequestsFrom(Requested(file), outcomes)

\* Mutant of download_subtitle_direct: a text of 9 characters is long
\* enough.
download_subtitle_direct_from_9(fetch) ==
    LET reached == IF ~fetch.response THEN "evaluate"
                   ELSE IF fetch.length < 9 THEN "debug" ELSE "getsize"
        raised == fetch.raises # "none"
                    /\ CallOrder(fetch.raises) <= CallOrder(reached)
                    /\ (fetch.raises = "debug" => reached = "debug")
        opened == IF fetch.raises = "new_page" THEN 0 ELSE 1
    IN  [called |-> TRUE, raised |-> raised, opened |-> opened,
         closed |-> IF raised THEN 0 ELSE opened,
         result |-> ~raised /\ reached = "getsize",
         written |-> reached = "getsize"
                       /\ (raised => fetch.raises = "getsize"),
         file |-> IF reached # "getsize" THEN "none"
                  ELSE IF ~raised \/ fetch.raises = "getsize" THEN "whole"
                  ELSE IF fetch.raises = "write" THEN "partial"
                  ELSE "none"]

\* download_subtitle_direct, lines 1085-1158: the value returned, the pages
\* opened and closed, whether the file was written, and the file left at
\* output_path.
download_subtitle_direct(fetch) ==
    LET reached == IF ~fetch.response THEN "evaluate"
                   ELSE IF fetch.length < 10 THEN "debug" ELSE "getsize"
        raised == fetch.raises # "none"
                    /\ CallOrder(fetch.raises) <= CallOrder(reached)
                    /\ (fetch.raises = "debug" => reached = "debug")
        opened == IF fetch.raises = "new_page" THEN 0 ELSE 1
    IN  [called |-> TRUE, raised |-> raised, opened |-> opened,
         closed |-> IF raised THEN 0 ELSE opened,
         result |-> ~raised /\ reached = "getsize",
         written |-> reached = "getsize"
                       /\ (raised => fetch.raises = "getsize"),
         file |-> IF reached # "getsize" THEN "none"
                  ELSE IF ~raised \/ fetch.raises = "getsize" THEN "whole"
                  ELSE IF fetch.raises = "write" THEN "partial"
                  ELSE "none"]

NotFetched ==
    [called |-> FALSE, raised |-> FALSE, opened |-> 0, closed |-> 0,
     result |-> FALSE, written |-> FALSE, file |-> "none"]

\* Mutant of exec_step_download_from_link: a download that fails makes the
\* step fail.
exec_step_download_from_link_raising(step, frame, parent, env) ==
    LET checked == index_check(step, env.count)
        acted == checked = "nth" /\ env.ok
        ext == file_extension(step, env.href)
        sub == IF acted /\ is_subtitle(ext)
               THEN download_subtitle_direct(env.fetch) ELSE NotFetched
        path == IF acted THEN out_path(step, env.title, ext) ELSE <<>>
        done == Located(checked, env.ok, frame,
                    <<Resolve("download_from_link", frame, parent)>>)
              @@ [ext |-> IF acted THEN ext ELSE <<>>,
                  path |-> path,
                  subtitle |-> sub,
                  sent |-> IF sub.called THEN <<env.href, path>> ELSE <<>>,
                  requests |-> acted /\ ~sub.result,
                  direct |-> IF acted /\ ~sub.result
                             THEN download_requests(env.direct, sub.file)
                             ELSE NotRequested,
                  asked |-> IF acted /\ ~sub.result THEN <<env.href, path>>
                            ELSE <<>>,
                  leaked |-> sub.opened - sub.closed]
    IN  [done EXCEPT
           !.ok = @ /\ (sub.result \/ done.direct.result = "true")]

\* exec_step_download_from_link, lines 1162-1295, for the link, the page
\* title and the outcomes of the downloads in env: the extension found,
\* the path, the call of download_subtitle_direct (sent: its url and
\* output_path), whether download_requests was called, what it did
\* (asked: its url and out_path), and the pages left open.
exec_step_download_from_link(step, frame, parent, env) ==
    LET checked == index_check(step, env.count)
        acted == checked = "nth" /\ env.ok
        ext == file_extension(step, env.href)
        sub == IF acted /\ is_subtitle(ext)
               THEN download_subtitle_direct(env.fetch) ELSE NotFetched
        path == IF acted THEN out_path(step, env.title, ext) ELSE <<>>
    IN  Located(checked, env.ok, frame,
                <<Resolve("download_from_link", frame, parent)>>)
          @@ [ext |-> IF acted THEN ext ELSE <<>>,
              path |-> path,
              subtitle |-> sub,
              sent |-> IF sub.called THEN <<env.href, path>> ELSE <<>>,
              requests |-> acted /\ ~sub.result,
              direct |-> IF acted /\ ~sub.result
                         THEN download_requests(env.direct, sub.file)
                         ELSE NotRequested,
              asked |-> IF acted /\ ~sub.result THEN <<env.href, path>>
                        ELSE <<>>,
              leaked |-> sub.opened - sub.closed]

\* The numbers of times the executor of a step can have slept for the
\* step's "sleep" when it returns, raises or enters its loop: d is what
\* the step did.  An executor that catches a failure under ignore may
\* have returned at once (no sleep) or gone on to its last line.
Sleeps(types, step, d, env) ==
    LET type == StepType(step)
    IN  IF ~HasSleep(step) \/ type \notin types THEN {0}
        ELSE IF type \in {"frame", "write", "scroll",
                          "group_action", "group_excel"}
        THEN {0}
        ELSE IF type = "main_frame" THEN {1}
        ELSE IF type = "click" /\ "if" \in DOMAIN step /\ env.met # "not_met"
        THEN {0}
        ELSE IF type \in {"select", "write_excel", "download_from_link"}
        THEN IF d.ok THEN {1}
             ELSE IF Ignore(step) /\ ~env.early THEN {0, 1}
             ELSE {0}
        ELSE IF d.ok THEN {1} ELSE {0}

\* The executor a dispatcher's if/elif chain calls for a step, named by
\* what follows exec_step_ in its name: in each of the three chains the
\* branch of type t calls exec_step_t.
Executor(types, step) ==
    IF StepType(step) \in types THEN StepType(step) ELSE "none"

\* One pass through a dispatcher's if/elif chain for a step with a type.
Dispatch(types, step, frame, parent, env) ==
    LET type == StepType(step)
    IN  IF type \notin types THEN Returned(FALSE, frame, <<>>)
        ELSE IF type = "click"
        THEN exec_step_click(step, frame, parent, env)
        ELSE IF type = "array" /\ "click" \in DOMAIN step
        THEN exec_step_array(step, frame, parent, env)
        ELSE IF type = "download_from_link" /\ "href" \in DOMAIN env
        THEN exec_step_download_from_link(step, frame, parent, env)
        ELSE IF type \in LocatingTypes
        THEN exec_step_locating(step, frame, parent, env)
        ELSE IF type = "group_action"
        THEN exec_step_group_action(step, frame, parent, env)
        ELSE IF type = "group_excel"
        THEN exec_step_group_excel(step, frame, parent, env)
        ELSE LET ok == env.ok /\ (type = "frame" => "name" \in DOMAIN step)
             IN  Returned(ok,
                          FrameAfter(type, ok, get_key(step, "name", NoFrame),
                                     frame),
                          <<>>)

\* The chain of exec_step_group_excel, lines 241-278.
DispatchExcel(step, current_row, frame, parent, env) ==
    IF StepType(step) = "write_excel"
    THEN exec_step_write_excel(step, current_row, frame, parent, env)
    ELSE Dispatch(GroupExcelTypes, step, frame, parent, env)

\* ------------------------------------------------------------------------
\* The workflow interpreter: the loops of run and of the group executors
\* ------------------------------------------------------------------------
Top(st) == st[Len(st)]
Pop(st) == SubSeq(st, 1, Len(st) - 1)
SetTop(st, a) == [st EXCEPT ![Len(st)] = a]

\* The loops going on to the next parent or row after any action.
AdvanceToNext(st) ==
    IF st = <<>> THEN st
    ELSE LET a == Top(st)
         IN  IF Len(a.indices) > 1
             THEN SetTop(st, [a EXCEPT !.j = 1, !.indices = Tail(@),
                                       !.local_frame = a.current_frame,
                                       !.passes = IF @ > 0 THEN @ + 1
                                                  ELSE @])
             ELSE IF a.j < Len(a.actions) \/ a.more
             THEN SetTop(st, [a EXCEPT !.j = @ + 1])
             ELSE Pop(st)

\* The loops going on to the next parent or row with the frame the last
\* one ended with.
RECURSIVE AdvanceKeepingFrame(_)
AdvanceKeepingFrame(st) ==
    IF st = <<>> THEN st
    ELSE LET a == Top(st)
         IN  IF a.j < Len(a.actions) \/ a.more
             THEN SetTop(st, [a EXCEPT !.j = @ + 1])
             ELSE IF Len(a.indices) > 1
             THEN SetTop(st, [a EXCEPT !.j = 1, !.indices = Tail(@),
                                       !.passes = IF @ > 0 THEN @ + 1
                                                  ELSE @])
             ELSE AdvanceKeepingFrame(Pop(st))

\* The loops go on after the current action of the innermost group call:
\* to its next action, else to the first action of the next parent or row
\* (local_frame = current_frame again, lines 226 and 1379), else the group
\* returns and its caller's loop goes on in the same way.
RECURSIVE Advance(_)
Advance(st) ==
    IF st = <<>> THEN st
    ELSE LET a == Top(st)
         IN  IF a.j < Len(a.actions) \/ a.more
             THEN SetTop(st, [a EXCEPT !.j = @ + 1])
             ELSE IF Len(a.indices) > 1
             THEN SetTop(st, [a EXCEPT !.j = 1, !.indices = Tail(@),
                                       !.local_frame = a.current_frame,
                                       !.passes = IF @ > 0 THEN @ + 1
                                                  ELSE @])
             ELSE Advance(Pop(st))

\* The except clauses without their ignore branch at the top level.
FailWithoutIgnore(st, stepIgnore) ==
    IF st = <<>> THEN [stack |-> st, fatal |-> TRUE]
    ELSE IF stepIgnore \/ Top(st).ignore
    THEN [stack |-> Advance(st), fatal |-> FALSE]
    ELSE [stack |-> <<>>, fatal |-> TRUE]

\* The except clauses of the groups looking at the action's ignore only.
FailOwnIgnoreOnly(st, stepIgnore) ==
    IF st = <<>> THEN [stack |-> st, fatal |-> ~stepIgnore]
    ELSE IF stepIgnore THEN [stack |-> Advance(st), fatal |-> FALSE]
    ELSE [stack |-> <<>>, fatal |-> TRUE]

\* An exception reaches the except clause around the current action (lines
\* 279-284 and 1445-1452; for run, lines 1624-1634): with the step's ignore
\* or the group's ignore the loop goes on, otherwise the group call ends
\* with the exception, which then reaches its caller's clause as the
\* failure of the group step.
RECURSIVE Fail(_, _)
Fail(st, stepIgnore) ==
    IF st = <<>> THEN [stack |-> st, fatal |-> ~stepIgnore]
    ELSE IF stepIgnore \/ Top(st).ignore
    THEN [stack |-> Advance(st), fatal |-> FALSE]
    ELSE Fail(Pop(st), Top(st).ignore)

\* After the step dispatched from stack st: d is what it did.
After(st, step, d) ==
    IF d.push THEN [stack |-> Append(st, d.act), fatal |-> FALSE]
    ELSE IF d.ok THEN [stack |-> Advance(st), fatal |-> FALSE]
    ELSE Fail(st, Ignore(step))

\* The parent of a nested action decided by the group's global_actions
\* alone.
EffectiveParentGroupGlobal(a, action) ==
    IF a.kind = "group_excel" THEN a.parent
    ELSE IF a.global_actions THEN NoParent
    ELSE Nth(a.parents, Head(a.indices))

\* The parent of a nested action with the group's global_actions left out.
EffectiveParentOwnGlobal(a, action) ==
    IF a.kind = "group_excel" THEN a.parent
    ELSE IF get_key(action, "global", FALSE) THEN NoParent
    ELSE Nth(a.parents, Head(a.indices))

\* Lines 1405 and 241-274: the parent a nested action is run with.
EffectiveParent(a, action) ==
    IF a.kind = "group_excel" THEN a.parent
    ELSE IF a.global_actions \/ get_key(action, "global", FALSE)
    THEN NoParent
    ELSE Nth(a.parents, Head(a.indices))

TypesOf(kind) ==
    IF kind = "group_action" THEN GroupActionTypes ELSE GroupExcelTypes

\* The record of a dispatch.
Dispatched(step, d, frame, parent) ==
    [type |-> StepType(step), ok |-> d.ok, seen |-> frame, after |-> d.frame,
     parent |-> parent, cont |-> follow]

\* What is kept of the step dispatched before the last one: of a goto
\* whether it succeeded, of a refresh the frame it was dispatched under.
Brief(l) ==
    IF l.type = "goto"
    THEN [type |-> "goto", ok |-> l.ok, seen |-> NoFrame]
    ELSE IF l.type = "refresh"
    THEN [type |-> "refresh", ok |-> FALSE, seen |-> l.seen]
    ELSE [type |-> IF l.type = "none" THEN "none" ELSE "other",
          ok |-> FALSE, seen |-> NoFrame]

ScopeStep(step, d) ==
    d.ok /\ StepType(step) \in {"goto", "frame", "main_frame"}

\* With stack st the loop that ran a step under depth group calls is still
\* in the same pass over its list.
SamePass(depth, st) ==
    /\ Len(st) = depth
    /\ depth > 0 => Top(st).j > 1

\* What a run is watched for: the scope its steps run in, how its steps
\* end, the sleeps after them, or the passes of its groups over their
\* parents and rows.
Watches == {"scope", "errors", "sleep", "passes", "index", "alive",
            "launch", "download"}

\* What every dispatch records of the scope: frame and parent are the
\* dispatcher's frame and the parent it runs the step with, depth the
\* number of group calls the step was dispatched under, st the stack after
\* the step.
Record(step, d, frame, parent, depth, st) ==
    IF watch = "scope"
    THEN /\ prev' = Brief(last)
         /\ last' = Dispatched(step, d, frame, parent)
         /\ resolved' = d.resolved
         /\ scope' = IF ScopeStep(step, d) THEN d.frame ELSE scope
         /\ nestedScope' = (nestedScope \/ (depth > 0 /\ ScopeStep(step, d)))
         /\ follow' = (~d.push /\ SamePass(depth, st))
    ELSE IF watch = "passes"
    THEN /\ last' = Dispatched(step, d, frame, parent)
         /\ resolved' = d.resolved
         /\ UNCHANGED <<prev, follow, scope, nestedScope>>
    ELSE UNCHANGED <<last, prev, follow, resolved, scope, nestedScope>>

\* A step without a type is not dispatched; st and depth as above.
NotDispatched(depth, st) ==
    /\ follow' = IF watch = "scope" THEN follow /\ SamePass(depth, st)
                 ELSE follow
    /\ UNCHANGED <<last, prev, resolved, scope, nestedScope>>

\* The calls that end with the exception of a step that failed under stack
\* st: none when the step's or the innermost group's ignore covers it.
RECURSIVE Raised(_, _)
Raised(st, stepIgnore) ==
    IF st = <<>> \/ stepIgnore \/ Top(st).ignore THEN 0
    ELSE 1 + Raised(Pop(st), Top(st).ignore)

\* What every dispatch records of how the step ended: dispatcher is the
\* function whose if/elif chain took the step, st the stack it was
\* dispatched from (the innermost call knowing the step), types the step
\* types of the chain.
RecordErr(dispatcher, types, step, d, st) ==
    err' = IF watch \in {"errors", "alive"}
           THEN [dispatcher |-> dispatcher, depth |-> Len(st),
                 type |-> StepType(step), ignore |-> Ignore(step),
                 cover |-> st # <<>> /\ Top(st).ignore,
                 exec |-> Executor(types, step), ok |-> d.ok,
                 next |-> st # <<>>
                            /\ (Top(st).j < Len(Top(st).actions)
                                  \/ Top(st).more),
                 raised |-> IF d.ok THEN 0 ELSE Raised(st, Ignore(step)),
                 raw |-> get_key(step, "type", "")]
           ELSE err

\* A call of a group executor that ends: it sleeps for the step's "sleep"
\* (lines 286 and 1454) when it returns from its loops.
EndOf(a, how) ==
    [what |-> a.kind, sleep |-> a.sleep, how |-> how,
     n |-> IF how = "returned" /\ a.sleep THEN 1 ELSE 0,
     passes |-> a.passes, all |-> a.all, global_actions |-> a.global_actions,
     total |-> a.total, sheet |-> a.sheet, from |-> a.from]

\* The calls that return when the loops go on after the current action.
RECURSIVE Returning(_)
Returning(st) ==
    IF st = <<>> THEN <<>>
    ELSE LET a == Top(st)
         IN  IF a.j < Len(a.actions) \/ a.more \/ Len(a.indices) > 1
             THEN <<>>
             ELSE <<EndOf(a, "returned")>> \o Returning(Pop(st))

\* The calls that end when a step fails under stack st: those the
\* exception ends, "ignored" when the caller's except clause goes on, and
\* those that return then.
RECURSIVE Failing(_, _)
Failing(st, stepIgnore) ==
    IF st = <<>> THEN <<>>
    ELSE IF stepIgnore \/ Top(st).ignore THEN Returning(st)
    ELSE <<EndOf(Top(st),
                 IF Pop(st) # <<>> /\ Top(Pop(st)).ignore THEN "ignored"
                 ELSE "raised")>>
           \o Failing(Pop(st), Top(st).ignore)

\* What every dispatch records of the sleeps: the executor of the step,
\* unless it is in its loop, then the calls that end with it; n is the
\* number of sleeps of the step's executor.
RecordNaps(step, d, st, n) ==
    naps' = IF watch \in {"sleep", "passes", "index"}
            THEN (IF d.push THEN <<>>
                  ELSE <<[what |-> StepType(step), sleep |-> HasSleep(step),
                          how |-> IF d.ok THEN "returned"
                                  ELSE IF Ignore(step)
                                            \/ (st # <<>> /\ Top(st).ignore)
                                  THEN "ignored"
                                  ELSE "raised",
                          n |-> n, passes |-> 0, all |-> <<>>,
                          global_actions |-> FALSE, total |-> 0,
                          sheet |-> <<>>, from |-> 0]>>)
                   \o (IF d.push THEN <<>>
                       ELSE IF d.ok THEN Returning(st)
                       ELSE Failing(st, Ignore(step)))
            ELSE naps

\* The step the latest loop pass dispatched read nothing of a group call
\* or of the spreadsheet.
NoXl == [type |-> "none"]

\* What a dispatch records of the step's index and condition: the step's
\* array_select_one and ignore, the numbers of elements matched, the
\* outcome of the test of the index, the parents and child clicks an array
\* step went through, and of a click with a condition what was clicked.
Indexing(step, d, env) ==
    LET type == StepType(step)
        cond == get_key(step, "if", <<>>)
    IN  [type |-> type, ignore |-> Ignore(step),
         has_idx |-> "array_select_one" \in DOMAIN step,
         idx |-> get_key(step, "array_select_one", 0),
         count |-> IF type \in {"array", "group_action"} THEN env.total
                   ELSE env.count,
         ok |-> d.ok, push |-> d.push,
         located |-> d.resolved # <<>>,
         checked |-> get_key(d, "checked", "none"),
         acted |-> get_key(d, "acted", FALSE),
         indices |-> get_key(d, "indices", <<>>),
         visits |-> get_key(d, "visits", <<>>),
         children |-> Len(get_key(step, "click", <<>>)),
         has_if |-> "if" \in DOMAIN step,
         status |-> get_key(cond, "status", ""),
         listed |-> Len(get_key(cond, "click", <<>>)),
         cond_count |-> get_key(env, "cond_count", 0),
         outer |-> get_key(d, "outer", FALSE),
         alt |-> get_key(d, "alt", 0)]

\* What a dispatch records of a download_from_link step: the step, the
\* link, the title and the fetch it met, and what the executor did.
Downloading(step, d, env) ==
    IF StepType(step) = "download_from_link" /\ "href" \in DOMAIN env
    THEN [type |-> "download_from_link", step |-> step,
          href |-> env.href, title |-> env.title, fetch |-> env.fetch,
          acted |-> d.acted, ext |-> d.ext, path |-> d.path,
          subtitle |-> d.subtitle, requests |-> d.requests,
          leaked |-> d.leaked, before |-> pages,
          answers |-> env.direct, direct |-> d.direct, ok |-> d.ok,
          sent |-> d.sent, asked |-> d.asked]
    ELSE NoXl

\* What a dispatch of run records of the spreadsheet: for a group_excel
\* step that opened its file, the sheet, the start row and the rows it
\* loaded.
RecordXlTop(step, d, env) ==
    xl' = IF watch = "index"
          THEN Indexing(step, d, env) @@ [kind |-> "run"]
          ELSE IF watch = "download" THEN Downloading(step, d, env)
          ELSE IF watch = "passes" /\ StepType(step) = "group_excel"
             /\ "sheet" \in DOMAIN env /\ (d.ok \/ d.push)
          THEN [type |-> "group_excel", sheet |-> env.sheet,
                given |-> get_key(step, "start_row", 0),
                start_row |-> StartRow(step),
                rows |-> IF d.push THEN d.act.indices ELSE <<>>]
          ELSE NoXl

\* What a dispatch of a group call a records: the call's kind, its
\* global_actions, the number of the pass and the position of the action,
\* all its parent indices or rows and the current one; for write_excel,
\* the column, the text taken from the row and what was typed.
RecordXl(a, action, d, env) ==
    xl' = IF watch = "index"
          THEN Indexing(action, d, env)
                 @@ [kind |-> a.kind, pass |-> a.passes, j |-> a.j,
                     all |-> a.all, current |-> Head(a.indices),
                     total |-> a.total]
          ELSE IF watch = "download" THEN Downloading(action, d, env)
          ELSE IF watch = "passes"
          THEN [type |-> StepType(action), kind |-> a.kind,
                global_actions |-> a.global_actions,
                pass |-> a.passes, j |-> a.j, all |-> a.all,
                sheet |-> a.sheet, from |-> a.from,
                current |-> Head(a.indices), ok |-> d.ok,
                parents |-> a.parents, total |-> a.total,
                has_global |-> "global" \in DOMAIN action,
                global |-> get_key(action, "global", FALSE)]
                 @@ (IF a.kind = "group_excel"
                        /\ StepType(action) = "write_excel"
                     THEN [has_col |-> "write_from_col" \in DOMAIN action,
                           col |-> get_key(action, "write_from_col", 0),
                           value |-> d.value, typed |-> d.typed,
                           warned |-> d.warned]
                     ELSE <<>>)
          ELSE xl

NoRecord ==
    /\ UNCHANGED <<last, prev, follow, resolved, scope, nestedScope, watch>>
    /\ err' = NoErr
    /\ naps' = <<>>
    /\ xl' = NoXl

\* The records stay as they are: those of the last step of the workflow
\* are kept to the end of the run.
Kept ==
    UNCHANGED <<last, prev, follow, resolved, scope, nestedScope, watch,
                err, naps, xl>>

\* The pages the launched browser may open with.
PagesOf(w) == IF w = "alive" THEN 1..MaxPages ELSE {1}

\* How launch_persistent_context may end: with the browser up, or with an
\* error because another run holds the profile directory.
LaunchesOf(w) == IF w = "launch" THEN {"up", "locked"} ELSE {"up"}

\* What a run records of its launch: the calls of
\* launch_persistent_context it made, whether one of them named another
\* directory than the profile, and whether it logged a warning.
Launched(launch) ==
    IF watch = "launch"
    THEN /\ UNCHANGED <<last, prev, follow, resolved, scope, nestedScope,
                        watch>>
         /\ err' = NoErr
         /\ naps' = <<>>
         /\ xl' = [type |-> "launch", locked |-> launch = "locked",
                   calls |-> 1, suffixed |-> FALSE, warned |-> FALSE]
    ELSE NoRecord

\* run, lines 1543-1564: launch_persistent_context is called once, outside
\* any try (lines 1544-1555), so its error leaves run; otherwise the
\* browser is up with a page (line 1563 opens one when the browser has
\* none) and no frame is selected.
RunStart ==
    /\ UNCHANGED <<asmVars, selVars, fnVars>>
    /\ rpc = "start"
    /\ \E launch \in LaunchesOf(watch) :
         /\ rpc' = IF launch = "up" THEN "loop" ELSE "done"
         /\ run_result' = IF launch = "up" THEN run_result ELSE "raised"
         /\ pages' \in IF launch = "up" THEN PagesOf(watch) ELSE {0}
         /\ Launched(launch)
    /\ current_frame' = NoFrame
    /\ UNCHANGED <<fatal_error, stack>>

\* The workflows a run is given.
SleepTopSteps ==
    {WithSleep(s) : s \in TopSteps} \cup {Simple("click", FALSE)}
SleepNestedActions ==
    {WithSleep(Simple("click", FALSE)), WithSleep(Simple("write", TRUE)),
     WithSleep(Simple("select", TRUE)), Simple("goto", FALSE),
     WithSleep(GroupAction(<<WithSleep(Simple("click", FALSE))>>,
                           FALSE, FALSE, FALSE))}

ErrTopSteps ==
    TopSteps \cup {Raw(t, i) : t \in RawTypes, i \in BOOLEAN}
ErrNestedActions ==
    NestedActions \cup {Raw(" Click", FALSE), Raw("HOVER", TRUE)}

PassTopSteps ==
    {Simple("click", FALSE), Frame("f1", FALSE), Simple("goto", FALSE)}
      \cup {GroupExcel(<<>>, TRUE, i) : i \in BOOLEAN}
      \cup {GroupExcelFrom(<<>>, TRUE, FALSE, s) : s \in {1, 3}}
      \cup {GroupAction(<<>>, TRUE, i, g) : i \in BOOLEAN, g \in BOOLEAN}
      \cup {GroupActionOne(<<>>, TRUE, FALSE, TRUE, 1)}
PassNestedActions ==
    {WriteExcel(c, FALSE) : c \in 0..3}
      \cup {WriteExcelNoCol(FALSE), WriteExcel(2, TRUE),
            Simple("click", FALSE), Untyped(FALSE)}
\* The actions of a group_action call: a click, without and with its own
\* "global" flag.
PassGroupActions ==
    {Simple("click", FALSE)} \cup {GlobalFlag("click", g) : g \in BOOLEAN}

IndexValues == {-1, 0, 1, MaxParents}
IndexTopSteps ==
    {Simple(t, i) : t \in {"click", "write", "scroll"}, i \in BOOLEAN}
      \cup {Indexed(Simple(t, i), s) :
              t \in {"click", "write", "select", "scroll",
                     "download_from_link"},
              i \in BOOLEAN, s \in IndexValues}
      \cup {ArrayStep(c, i) :
              c \in {<<>>, <<Child(FALSE)>>, <<Child(TRUE), Child(FALSE)>>},
              i \in BOOLEAN}
      \cup {Indexed(ArrayStep(<<Child(FALSE), Child(FALSE)>>, i), s) :
              i \in BOOLEAN, s \in IndexValues}
      \cup {GroupAction(<<>>, TRUE, i, FALSE) : i \in BOOLEAN}
      \cup {GroupActionOne(<<>>, TRUE, i, FALSE, s) :
              i \in BOOLEAN, s \in IndexValues}
      \cup {GroupExcel(<<>>, TRUE, FALSE)}
      \cup {ClickWhen(s, c, FALSE) :
              s \in {"", "found", "not_found", "maybe"},
              c \in {<<>>, <<Simple("click", FALSE)>>,
                     <<Simple("click", FALSE), Simple("click", TRUE)>>}}
IndexNestedActions ==
    {Simple("click", i) : i \in BOOLEAN}
      \cup {Indexed(WriteExcel(1, i), s) : i \in BOOLEAN, s \in {0, 1}}

DownloadTopSteps ==
    {Simple("download_from_link", FALSE) @@ x : x \in DownloadFields}
      \cup {Simple("download_from_link", TRUE)}
      \cup {Simple("click", FALSE), GroupAction(<<>>, TRUE, FALSE, FALSE)}
DownloadNestedActions ==
    {Simple("download_from_link", i) @@ [download_dir |-> <<"e">>] :
       i \in BOOLEAN}

AliveTopSteps ==
    {Simple(t, i) : t \in {"click", "goto", "write"}, i \in BOOLEAN}
      \cup {Untyped(i) : i \in BOOLEAN}
      \cup {GroupAction(<<>>, TRUE, i, FALSE) : i \in BOOLEAN}
AliveNestedActions == {Simple("click", i) : i \in BOOLEAN}

TopStepsOf(w) ==
    IF w = "download" THEN DownloadTopSteps
    ELSE IF w = "alive" THEN AliveTopSteps
    ELSE IF w = "sleep" THEN SleepTopSteps
    ELSE IF w = "index" THEN IndexTopSteps
    ELSE IF w = "passes" THEN PassTopSteps
    ELSE IF w = "errors" THEN ErrTopSteps
    ELSE TopSteps
NestedActionsOf(w, kind) ==
    IF w = "download" THEN DownloadNestedActions
    ELSE IF w = "alive" THEN AliveNestedActions
    ELSE IF w = "sleep" THEN SleepNestedActions
    ELSE IF w = "index" THEN IndexNestedActions
    ELSE IF w = "passes"
    THEN (IF kind = "group_action" THEN PassGroupActions
          ELSE PassNestedActions)
    ELSE IF w = "errors" THEN ErrNestedActions
    ELSE NestedActions

\* The pages a dispatched step opened in the browser and left open.
Leaked(d) ==
    IF watch = "download" THEN get_key(d, "leaked", 0) ELSE 0

\* run, lines 1572-1623: one pass of the loop over the workflow.  A step
\* without a type (lines 1580-1587) reaches no executor.
RunStep ==
    /\ UNCHANGED <<asmVars, selVars, fnVars>>
    /\ rpc = "loop" /\ stack = <<>>
    /\ \E step \in TopStepsOf(watch) : \E env \in EnvFor(step) :
        LET d == IF ~HasType(step)
                 THEN Returned(FALSE, current_frame, <<>>)
                 ELSE Dispatch(RunTypes, step, current_frame, NoParent, env)
            r == After(<<>>, step, d)
        IN  /\ current_frame' = d.frame
            /\ pages' = pages + Leaked(d)
            /\ pages' <= MaxPages
            /\ stack' = r.stack
            /\ fatal_error' = r.fatal
            /\ rpc' = IF r.fatal THEN "keepalive" ELSE "loop"
            /\ IF ~HasType(step)
               THEN /\ NotDispatched(0, r.stack) /\ err' = NoErr
                    /\ naps' = <<>> /\ xl' = NoXl
               ELSE /\ Record(step, d, current_frame, NoParent, 0, r.stack)
                    /\ RecordErr("run", RunTypes, step, d, <<>>)
                    /\ \E n \in Sleeps(RunTypes, step, d, env) :
                          RecordNaps(step, d, <<>>, n)
                    /\ RecordXlTop(step, d, env)
    /\ UNCHANGED <<run_result, watch>>

\* The action at position j of a group call, with the call as it is once
\* the action is known: an action read before, or the next one of the list
\* (of which it is the last one, or not).
Reading(a) ==
    IF a.j <= Len(a.actions) THEN {[action |-> a.actions[a.j], call |-> a]}
    ELSE {[action |-> x,
           call |-> [a EXCEPT !.actions = Append(@, x), !.more = m]] :
            x \in NestedActionsOf(watch, a.kind),
            m \in IF Len(a.actions) + 1 < MaxActions THEN BOOLEAN
                  ELSE {FALSE}}

\* exec_step_group_action, lines 1381-1452, and exec_step_group_excel,
\* lines 228-284: one pass of the loop over the actions, with what follows
\* it when the action ends the list, the iterations or the group.  An
\* action without a type (lines 1385-1390, 230-233) is skipped.
NestedStep ==
    /\ UNCHANGED <<asmVars, selVars, fnVars>>
    /\ rpc = "loop" /\ stack # <<>>
    /\ \E rd \in Reading(Top(stack)) : \E env \in EnvFor(rd.action) :
        LET a == rd.call
            action == rd.action
            d == IF a.kind = "group_excel"
                 THEN DispatchExcel(action, Head(a.indices), a.local_frame,
                                    EffectiveParent(a, action), env)
                 ELSE Dispatch(GroupActionTypes, action, a.local_frame,
                               EffectiveParent(a, action), env)
            r == IF ~HasType(action)
                 THEN [stack |-> Advance(SetTop(stack, a)), fatal |-> FALSE]
                 ELSE After(SetTop(stack, [a EXCEPT !.local_frame = d.frame]),
                            action, d)
        IN  /\ stack' = r.stack
            /\ pages' = pages + Leaked(d)
            /\ pages' <= MaxPages
            /\ fatal_error' = r.fatal
            /\ rpc' = IF r.fatal THEN "keepalive" ELSE "loop"
            /\ IF ~HasType(action)
               THEN /\ NotDispatched(Len(stack), r.stack) /\ err' = NoErr
                    /\ naps' = IF watch \in {"sleep", "passes", "index"}
                               THEN Returning(SetTop(stack, a)) ELSE naps
                    /\ xl' = NoXl
               ELSE /\ Record(action, d, a.local_frame,
                              EffectiveParent(a, action), Len(stack), r.stack)
                    /\ RecordErr(a.kind, TypesOf(a.kind), action, d,
                                 SetTop(stack, a))
                    /\ \E n \in Sleeps(TypesOf(a.kind), action, d, env) :
                          RecordNaps(action, d, SetTop(stack, a), n)
                    /\ RecordXl(a, action, d, env)
    /\ UNCHANGED <<current_frame, run_result, watch>>

\* run, lines 1636-1645: the workflow has no further step.
RunEnd ==
    /\ UNCHANGED <<asmVars, selVars, fnVars>>
    /\ rpc = "loop" /\ stack = <<>>
    /\ rpc' = "keepalive"
    /\ UNCHANGED <<current_frame, fatal_error, stack, run_result, pages>>
    /\ IF watch = "download" THEN Kept ELSE NoRecord

\* What the keep-alive loop records of the poll that ends it: whether the
\* query of the pages failed.  The record of the failed step stays.
Polled(failed) ==
    IF watch = "alive"
    THEN /\ UNCHANGED <<last, prev, follow, resolved, scope, nestedScope,
                        watch, err, naps>>
         /\ xl' = [type |-> "poll", failed |-> failed]
    ELSE IF watch = "download" THEN Kept
    ELSE NoRecord

\* The user closes a page of the browser while run keeps it alive.
ClosePage ==
    /\ UNCHANGED <<asmVars, selVars, fnVars>>
    /\ rpc = "keepalive" /\ pages > 0
    /\ pages' = pages - 1
    /\ UNCHANGED <<rpc, current_frame, fatal_error, stack, run_result>>
    /\ UNCHANGED <<last, prev, follow, resolved, scope, nestedScope,
                   watch, err, naps, xl>>

\* run, lines 1647-1654: a poll of the keep-alive loop that finds a page
\* open: the loop sleeps (line 1654) and polls again.
RunPoll ==
    /\ UNCHANGED <<asmVars, selVars, fnVars>>
    /\ rpc = "keepalive" /\ pages > 0
    /\ UNCHANGED <<rpc, current_frame, fatal_error, stack, run_result,
                   pages>>
    /\ UNCHANGED <<last, prev, follow, resolved, scope, nestedScope,
                   watch, err, naps>>
    /\ xl' = IF watch = "alive" THEN [type |-> "poll", failed |-> FALSE]
             ELSE xl

\* run, lines 1647-1658: a poll of the keep-alive loop that finds no page
\* open (lines 1649-1650), or fails (lines 1651-1652), ends the loop; the
\* error of the failed step, if any, is raised then (lines 1657-1658).
\* (RunCloseAtOnce: the loop ends whatever the poll finds.)
RunCloseAtOnce ==
    /\ UNCHANGED <<asmVars, selVars, fnVars>>
    /\ rpc = "keepalive"
    /\ rpc' = "done"
    /\ run_result' = IF fatal_error THEN "raised" ELSE "returned"
    /\ UNCHANGED <<current_frame, fatal_error, stack, pages>>
    /\ Polled(FALSE)
RunClose ==
    /\ UNCHANGED <<asmVars, selVars, fnVars>>
    /\ rpc = "keepalive"
    /\ \E failed \in BOOLEAN :
         /\ pages = 0 \/ failed
         /\ Polled(failed)
    /\ rpc' = "done"
    /\ run_result' = IF fatal_error THEN "raised" ELSE "returned"
    /\ UNCHANGED <<current_frame, fatal_error, stack, pages>>

\* Before run is called, watched for w.
RunInitial(w) ==
    /\ rpc = "start"
    /\ current_frame = NoFrame
    /\ fatal_error = FALSE
    /\ stack = <<>>
    /\ run_result = "none"
    /\ last = NoDispatch
    /\ prev = NoneBefore
    /\ follow = FALSE
    /\ resolved = <<>>
    /\ scope = NoFrame
    /\ nestedScope = FALSE
    /\ watch = w
    /\ err = NoErr
    /\ naps = <<>>
    /\ xl = NoXl
    /\ pages = 0

RunInit == RunInitial("scope")

RunNext ==
    \/ RunStart
    \/ RunStep
    \/ NestedStep
    \/ RunEnd
    \/ RunPoll
    \/ RunClose

\* A call of run, with the user closing the pages of its browser.
AliveNext == RunNext \/ ClosePage

InitRun == AsmIdle /\ SelIdle /\ FnIdle /\ RunInit

\* One call of run.
SpecRun == InitRun /\ [][RunNext]_vars

InitErr == AsmIdle /\ SelIdle /\ FnIdle /\ RunInitial("errors")

\* One call of run, watched for how its steps end.
SpecErr == InitErr /\ [][RunNext]_vars

InitAlive == AsmIdle /\ SelIdle /\ FnIdle /\ RunInitial("alive")

\* One call of run, watched for how it keeps the browser alive.
SpecAlive == InitAlive /\ [][AliveNext]_vars

InitLaunch == AsmIdle /\ SelIdle /\ FnIdle /\ RunInitial("launch")

\* One call of run, watched for the launch of its browser.
SpecLaunch == InitLaunch /\ [][RunNext]_vars

InitDownload == AsmIdle /\ SelIdle /\ FnIdle /\ RunInitial("download")

\* One call of run, watched for the files its steps download.
SpecDownload == InitDownload /\ [][RunNext]_vars

InitIndex == AsmIdle /\ SelIdle /\ FnIdle /\ RunInitial("index")

\* One call of run, watched for the indices and conditions of its steps.
SpecIndex == InitIndex /\ [][RunNext]_vars

InitPasses == AsmIdle /\ SelIdle /\ FnIdle /\ RunInitial("passes")

\* One call of run, watched for the passes of its groups.
SpecPasses == InitPasses /\ [][RunNext]_vars

InitSleep == AsmIdle /\ SelIdle /\ FnIdle /\ RunInitial("sleep")

\* One call of run, watched for the sleeps after its steps.
SpecSleep == InitSleep /\ [][RunNext]_vars

\* ------------------------------------------------------------------------
\* The interpreter's claims on scope
\* ------------------------------------------------------------------------
\* The root of a frame value: the page for no frame.
RootOf(frame) == IF frame = NoFrame THEN PageRoot ELSE FrameRoot(frame)

Resolutions == {resolved[i] : i \in 1..Len(resolved)}

\* C7: whatever step resolves a locator (click, write, write_excel, select,
\* scroll, array, group_action, download_from_link, or the "if" condition
\* of a click), it resolves it under the frame and the parent of its
\* dispatcher, and the root is the parent locator if one is set, otherwise
\* the current frame if one is set, otherwise the page.
C7_LocatorRoot ==
    \A r \in Resolutions :
        /\ r.frame = last.seen
        /\ r.parent = last.parent
        /\ r.root = IF last.parent # NoParent THEN last.parent
                    ELSE IF last.seen # NoFrame THEN FrameRoot(last.seen)
                    ELSE PageRoot

\* C7: a click nested in a group_action that was started under frame f1
\* has resolved its locator against the second matched parent.
C7_Witness ==
    /\ last.type = "click"
    /\ last.seen = "f1"
    /\ last.parent = Nth(FrameRoot("f1"), 1)
    /\ \E r \in Resolutions : r.who = "click" /\ r.root = last.parent

\* C8: a step that resolves a locator without a parent resolves it against
\* the frame of the latest frame step that succeeded, and against the page
\* root when a goto or main_frame step succeeded after it (or no frame step
\* ever did), at the top level and nested in group_action and group_excel.
C8_ScopePropagation ==
    \A r \in Resolutions : r.parent = NoParent => r.root = RootOf(scope)

\* C8, along the runs in which no goto, frame or main_frame step has run
\* inside a group.
C8_ScopeWithoutNestedChange == ~nestedScope => C8_ScopePropagation

\* C8: after frame f1 and a group whose last action was a goto that
\* succeeded, the click dispatched next, once the group has returned, has
\* resolved its locator against f1.
C8_Witness ==
    /\ stack = <<>>
    /\ last.type = "click" /\ ~last.cont
    /\ prev.type = "goto" /\ prev.ok
    /\ scope = NoFrame
    /\ \E r \in Resolutions : r.root = FrameRoot("f1")

\* C9: the step dispatched next after a goto that succeeded, at any level,
\* sees no current frame.
C9_GotoDiscardsFrame ==
    (prev.type = "goto" /\ prev.ok) => last.seen = NoFrame

\* C9, for the next sibling of the goto in the same pass over the list.
C9_GotoDiscardsFrameForSibling ==
    (prev.type = "goto" /\ prev.ok /\ last.cont) => last.seen = NoFrame

\* C9: the step dispatched next after a nested goto that succeeded, once
\* the goto's group had returned, was dispatched under frame f1.
C9_Witness ==
    /\ stack = <<>>
    /\ prev.type = "goto" /\ prev.ok
    /\ ~last.cont
    /\ last.type \notin {"none", "goto"}
    /\ last.seen = "f1"
    /\ current_frame = last.after

\* C10: a refresh step leaves its dispatcher's frame as it was, and the
\* next sibling of a refresh step is dispatched, and resolves its locators,
\* under the frame the refresh step was dispatched under.
C10_RefreshKeepsFrame ==
    /\ last.type = "refresh" => last.after = last.seen
    /\ (prev.type = "refresh" /\ last.cont) =>
           /\ last.seen = prev.seen
           /\ \A r \in Resolutions : r.frame = prev.seen

\* C10: the click that follows a refresh step under frame f1 has resolved
\* its locator against f1.
C10_Witness ==
    /\ prev.type = "refresh" /\ prev.seen = "f1"
    /\ last.cont /\ last.type = "click" /\ last.parent = NoParent
    /\ \E r \in Resolutions : r.who = "click" /\ r.root = FrameRoot("f1")

\* ------------------------------------------------------------------------
\* The interpreter's claims on failures
\* ------------------------------------------------------------------------
\* C11: when the executor of a step of the top-level workflow fails, the
\* loop of run goes on to the next sibling if the step has ignore true; if
\* it has ignore false or none, whether the executor failed at once or a
\* failure came out of the last of the group calls it had started, the
\* error is fatal and no step is dispatched ever after.
C11_IgnoreLocality ==
    /\ [](err.dispatcher = "run" /\ ~err.ok =>
            IF err.ignore
            THEN rpc = "loop" /\ stack = <<>> /\ ~fatal_error
            ELSE rpc = "keepalive" /\ stack = <<>> /\ fatal_error)
    /\ [](err.raised > 0 /\ err.raised = err.depth =>
            rpc = "keepalive" /\ stack = <<>> /\ fatal_error)
    /\ [][fatal_error =>
            fatal_error' /\ rpc' # "loop" /\ err' = NoErr /\ stack' = stack]_vars

\* C11: a top-level click with ignore true has failed and the loop goes on.
C11_Witness ==
    /\ err.dispatcher = "run" /\ err.type = "click" /\ err.exec = "click"
    /\ ~err.ok /\ err.ignore
    /\ rpc = "loop" /\ ~fatal_error

\* C12: when a nested action of group_action or group_excel fails and its
\* own ignore or the ignore of the group it is an action of is true, no
\* call ends and the group's loop goes on, with the next action of the
\* same parent or row if the list has one; if both are false, the call of
\* the group ends with the failure, and with it its actions, parents and
\* rows.
C12_NestedIgnore ==
    [][(err'.depth > 0 /\ ~err'.ok) =>
         /\ err'.depth = Len(stack)
         /\ IF err'.ignore \/ err'.cover
            THEN /\ err'.raised = 0
                 /\ ~fatal_error' /\ rpc' = "loop"
                 /\ err'.next =>
                      /\ Len(stack') = Len(stack)
                      /\ Top(stack').j = Top(stack).j + 1
                      /\ Top(stack').indices = Top(stack).indices
            ELSE /\ err'.raised >= 1
                 /\ Len(stack') <= Len(stack) - err'.raised
                 /\ Len(stack') < Len(stack)]_vars

\* C12: a click without ignore has failed in a group with ignore true, and
\* the group's loop is at its next action.
C12_Witness ==
    /\ err.depth = 1 /\ err.type = "click" /\ ~err.ok
    /\ ~err.ignore /\ err.cover /\ err.next
    /\ Len(stack) = 1 /\ Top(stack).j = 2

\* C12: a nested action has failed with both flags false, in a group nested
\* in a group with ignore true: the inner call has ended, the outer goes on.
C12_WitnessPropagated ==
    /\ err.depth = 2 /\ ~err.ok /\ ~err.ignore /\ ~err.cover
    /\ err.raised = 1
    /\ Len(stack) = 1 /\ ~fatal_error

\* Two texts that differ in the case of their letters only.
EqualIgnoringCase(a, b) ==
    /\ Len(a) = Len(b)
    /\ \A i \in 1..Len(a) : LowerChar(a[i]) = LowerChar(b[i])

\* The text raw is the name of kind, in any case, with blanks before and
\* after it.
IsKind(raw, kind) ==
    \E i \in 1..(Len(raw) + 1) : \E j \in 0..Len(raw) :
        /\ i <= j + 1
        /\ \A p \in 1..(i - 1) : IsSpace(raw[p])
        /\ \A p \in (j + 1)..Len(raw) : IsSpace(raw[p])
        /\ EqualIgnoringCase(SubSeq(raw, i, j), Spell[kind])

\* The step kinds of the top-level dispatcher a type value names.
KindsOf(type) == {k \in RunTypes : IsKind(Spell[type], k)}

\* How the loop of run has gone on after the step it dispatched last
\* failed: to the next sibling under ignore, to the end otherwise.
FailedAtTop ==
    /\ ~err.ok /\ stack = <<>>
    /\ IF err.ignore THEN rpc = "loop" /\ ~fatal_error
       ELSE rpc = "keepalive" /\ fatal_error

\* C14: a top-level step whose type, trimmed and compared without regard
\* to case, names no step kind of the dispatcher reaches no executor and
\* fails: fatally with ignore false, with the next sibling running with
\* ignore true; a type that names a kind in this way reaches that kind's
\* executor.
C14_UnknownType ==
    err.dispatcher = "run" =>
        IF KindsOf(err.raw) = {}
        THEN err.exec = "none" /\ FailedAtTop
        ELSE err.exec \in KindsOf(err.raw)

\* C14: a step of type "HOVER" with ignore true was skipped.
C14_Witness ==
    /\ err.dispatcher = "run" /\ err.raw = "HOVER" /\ err.ignore
    /\ err.exec = "none" /\ rpc = "loop"

\* C14: a step of type " Click" has reached the click executor.
C14_WitnessKnown ==
    /\ err.dispatcher = "run" /\ err.raw = " Click" /\ err.exec = "click"
    /\ err.ok

\* C15: a nested action of group_action whose type the top-level
\* dispatcher accepts reaches the executor the top-level dispatcher calls
\* for that type.
C15_NestedAcceptsAll ==
    (err.dispatcher = "group_action" /\ err.type \in RunTypes) =>
        err.exec = Executor(RunTypes, [type |-> err.type])

\* C15: a refresh action nested in group_action has reached no executor
\* and failed.
C15_Witness ==
    /\ err.dispatcher = "group_action" /\ err.type = "refresh"
    /\ err.exec = "none" /\ ~err.ok

\* C15, for the types other than refresh, select and group_excel.
C15_NestedAcceptsMost ==
    (err.dispatcher = "group_action"
       /\ err.type \in RunTypes \ {"refresh", "select", "group_excel"}) =>
        err.exec = Executor(RunTypes, [type |-> err.type])

\* C16: a write_excel step of the top-level workflow reaches no executor,
\* so that nothing is typed, and fails: the error is fatal unless the step
\* has ignore true.
C16_WriteExcelAtTop ==
    (err.dispatcher = "run" /\ err.type = "write_excel") =>
        err.exec = "none" /\ FailedAtTop

\* C16: a top-level write_excel step without ignore has ended the run.
C16_Witness ==
    /\ err.dispatcher = "run" /\ err.type = "write_excel" /\ ~err.ignore
    /\ err.exec = "none" /\ fatal_error /\ rpc = "keepalive"

\* ------------------------------------------------------------------------
\* The interpreter's claims on the post-step sleep
\* ------------------------------------------------------------------------
Ended == {naps[i] : i \in 1..Len(naps)}

\* C13: whenever the executor of a step with a positive "sleep" has
\* returned, or has failed with the failure ignored, it has slept for the
\* step's "sleep" exactly once, whatever kind the step is.
C13_SleepOnce ==
    \A e \in Ended :
        (e.sleep /\ e.how \in {"returned", "ignored"}) => e.n = 1

\* C13: a write step with a positive "sleep" has returned without a sleep.
C13_Witness ==
    \E e \in Ended :
        e.what = "write" /\ e.sleep /\ e.how = "returned" /\ e.n = 0

\* C13: a click step with a positive "sleep" has failed, the failure was
\* ignored, and there was no sleep.
C13_WitnessIgnored ==
    \E e \in Ended :
        e.what = "click" /\ e.sleep /\ e.how = "ignored" /\ e.n = 0

\* C13: the executors that sleep on their last line have slept once when
\* they returned.
C13_SleepOnceWhereCoded ==
    \A e \in Ended :
        (e.sleep /\ e.how = "returned"
           /\ e.what \in (RunTypes \cup {"write_excel"})
                          \ {"write", "scroll", "frame", "click",
                             "group_action", "group_excel"})
          => e.n = 1

\* ------------------------------------------------------------------------
\* The interpreter's claims on the passes of the groups
\* ------------------------------------------------------------------------
\* The latest dispatch was of a write_excel action of a group_excel call.
WroteExcel == xl.type = "write_excel" /\ xl.kind = "group_excel"

\* C17: inside a group_excel iteration, write_excel with write_from_col = c
\* (c >= 1) takes the string at position c of the current row (c - 1
\* counted from zero) when the row has at least c cells, and the empty
\* string with a warning and no error when it has fewer, and that string
\* is what it types when it reaches the element; with write_from_col
\* missing or < 1 it fails and types nothing.
C17_WriteFromCol ==
    WroteExcel =>
        IF xl.has_col /\ xl.col >= 1
        THEN /\ xl.value = Some(IF xl.col <= Len(xl.current)
                                THEN xl.current[xl.col] ELSE <<>>)
             /\ xl.warned = (xl.col > Len(xl.current))
             /\ xl.typed = IF xl.ok THEN xl.value ELSE None
        ELSE ~xl.ok /\ xl.typed = None /\ xl.value = None

\* C17: write_excel with write_from_col = 2 has typed "b", the second cell
\* of the row <<"a", "b">>.
C17_Witness ==
    /\ WroteExcel /\ xl.col = 2 /\ xl.ok
    /\ xl.current = << <<"a">>, <<"b">> >>
    /\ xl.typed = Some(<<"b">>)

\* C17: write_excel with write_from_col = 3 on a row of two cells has
\* typed the empty string, with a warning.
C17_WitnessShortRow ==
    /\ WroteExcel /\ xl.col = 3 /\ xl.ok /\ Len(xl.current) = 2
    /\ xl.warned /\ xl.typed = Some(<<>>)

\* C17: write_excel without write_from_col, and with write_from_col = 0,
\* has failed.
C17_WitnessNoCol == WroteExcel /\ ~xl.has_col /\ ~xl.ok
C17_WitnessColZero == WroteExcel /\ xl.has_col /\ xl.col = 0 /\ ~xl.ok

\* A row of the sheet with a cell that holds more than white space.
NonBlank(row) == \E i \in 1..Len(row) : row[i].some /\ Strip(row[i].s) # <<>>

\* The number of rows of the sheet from row start_row on, up to its first
\* blank row or its end.
RowsBeforeBlank(sheet, start_row) ==
    LET stops == {i \in start_row..(Len(sheet) + start_row) :
                    i > Len(sheet) \/ ~NonBlank(sheet[i])}
        first == CHOOSE i \in stops : \A k \in stops : i <= k
    IN  first - start_row

\* The rows of the sheet from start_row on up to the first blank one, read
\* as strings.
RowsToRun(sheet, start_row) ==
    [i \in 1..RowsBeforeBlank(sheet, start_row) |->
        CleanRow(sheet[start_row + i - 1])]

\* The group_excel calls in progress and the group calls that ended with
\* the latest loop pass.
ExcelCalls == {stack[i] : i \in {k \in 1..Len(stack) :
                                   stack[k].kind = "group_excel"}}
EndedCalls(kind) == {e \in Ended : e.what = kind /\ e.total > 0}

\* The rows of a group_excel call are the k non-blank rows of its sheet
\* from start_row up to the first blank row, and no pass is for a later one.
StopsAtBlankRow ==
    /\ xl.type = "group_excel"
         => xl.rows = RowsToRun(xl.sheet, xl.start_row)
    /\ \A a \in ExcelCalls :
         /\ a.all = RowsToRun(a.sheet, a.from)
         /\ a.passes \in 1..Len(a.all)
         /\ a.indices = SubSeq(a.all, a.passes, Len(a.all))
    /\ \A e \in EndedCalls("group_excel") :
         /\ e.all = RowsToRun(e.sheet, e.from)
         /\ e.passes \in 1..Len(e.all)

\* C18: given a sheet whose rows from start_row on are k non-blank rows
\* followed by an all-blank row and then any further rows, group_excel
\* runs its actions list exactly k times, and never for a row after the
\* first blank row.
C18_RunsExactlyK ==
    /\ StopsAtBlankRow
    /\ \A e \in EndedCalls("group_excel") :
         e.passes = RowsBeforeBlank(e.sheet, e.from)

\* C18, for the calls that no failure of an action ends: group_excel
\* loads the k rows before the first blank row, a call that returns has
\* run its actions list k times, and a call that an action's failure ends
\* has run it k times at most.
C18_BlankRowHalt ==
    /\ StopsAtBlankRow
    /\ \A e \in EndedCalls("group_excel") :
         e.how = "returned" => e.passes = RowsBeforeBlank(e.sheet, e.from)

\* C18: a group_excel call has returned after two passes over a sheet that
\* holds, from row 2 on, two rows, a blank row and a further row.
C18_Witness ==
    \E e \in EndedCalls("group_excel") :
        /\ e.how = "returned" /\ e.passes = 2 /\ e.from = 2
        /\ Len(e.sheet) = 5
        /\ ~NonBlank(e.sheet[4]) /\ NonBlank(e.sheet[5])

\* C18: the failure of an action has ended a group_excel call in the first
\* of its two passes.
C18_WitnessFailed ==
    \E e \in EndedCalls("group_excel") :
        e.how = "raised" /\ e.passes = 1 /\ Len(e.all) = 2

\* The latest dispatch was of an action of a group_excel call.
FromExcel == xl.type # "none" /\ "kind" \in DOMAIN xl /\ xl.kind = "group_excel"

\* The row of the sheet that the pass of the latest dispatch is for, read
\* as strings.
SheetRow == CleanRow(xl.sheet[xl.from + xl.pass - 1])

\* The group_excel calls in progress before and after a step.
SameCalls ==
    {d \in 1..Len(stack) : d <= Len(stack') /\ stack[d].kind = "group_excel"}

\* The rows are taken in sheet order from start_row (2 without the key):
\* the first pass is for row start_row, pass i for row start_row + i - 1,
\* and an action dispatched in a pass is given that row, from which alone
\* write_excel takes its text.
RowOfPass ==
    /\ xl.type = "group_excel"
         => /\ xl.start_row = IF xl.given = 0 THEN 2 ELSE xl.given
            /\ xl.rows # <<>>
                 => /\ Top(stack).from = xl.start_row
                    /\ Top(stack).passes = 1 /\ Top(stack).j = 1
    /\ FromExcel
         => /\ xl.current = SheetRow
            /\ xl.type = "write_excel" /\ xl.has_col /\ xl.col >= 1
                 => xl.value = Some(IF xl.col <= Len(SheetRow)
                                    THEN SheetRow[xl.col] ELSE <<>>)

\* A group_excel call stays in its pass at the same action (run by a call
\* it started) or goes to the next action of the list, and goes to the
\* first action of the next pass only from the last action of the list.
PassOrder ==
    \A d \in SameCalls :
        \/ stack'[d].passes = stack[d].passes
             /\ stack'[d].j \in {stack[d].j, stack[d].j + 1}
        \/ /\ stack'[d].passes = stack[d].passes + 1
           /\ stack'[d].j = 1
           /\ stack[d].j = Len(stack'[d].actions) /\ ~stack'[d].more

\* C19: group_excel processes rows in sheet order starting at start_row
\* (default 2): every action of row i is taken, in list order, before any
\* action of row i+1, and a write_excel dispatched during the iteration of
\* row i reads row i only.
C19_RowOrder == []RowOfPass /\ [][PassOrder]_vars

\* C19: in the second pass of a group_excel with start_row 1, the second
\* action of the list, a write_excel, has typed the first cell of row 2 of
\* the sheet.
C19_Witness ==
    /\ WroteExcel /\ xl.from = 1 /\ xl.pass = 2 /\ xl.j = 2
    /\ xl.col = 1 /\ xl.ok
    /\ xl.typed = Some(xl.sheet[2][1].s)
    /\ xl.sheet[2][1] # xl.sheet[1][1]

\* C19: a write_excel of the second pass of a group_excel without
\* start_row has read row 3 of the sheet.
C19_WitnessDefault ==
    /\ WroteExcel /\ xl.from = 2 /\ xl.pass = 2 /\ xl.col = 2 /\ xl.ok
    /\ xl.typed = Some(xl.sheet[3][2].s)

\* The latest dispatch was of an action of a group_action call with
\* global_actions true.
FromGlobal ==
    xl.type # "none" /\ "kind" \in DOMAIN xl
      /\ xl.kind = "group_action" /\ xl.global_actions

\* The group_action calls with global_actions that ended with the latest
\* loop pass.
EndedGlobal == {e \in EndedCalls("group_action") : e.global_actions}

C20_WitnessPasses ==
    \E e \in EndedGlobal : e.how = "returned" /\ e.passes = 2 /\ e.total = 2
C20_WitnessPage ==
    /\ FromGlobal /\ xl.type = "click" /\ last.seen = NoFrame
    /\ \E r \in Resolutions : r.root = PageRoot

\* ------------------------------------------------------------------------
\* The interpreter's claims on parents, indices and conditions
\* ------------------------------------------------------------------------
\* The latest dispatch was of an action of a group_action call.
FromGroupAction ==
    xl.type # "none" /\ "kind" \in DOMAIN xl /\ xl.kind = "group_action"

\* The matched parent of the pass of the latest dispatch.
MatchedParent == Nth(xl.parents, xl.current)

\* C21: in a group_action, a nested action that carries its own "global"
\* flag uses that flag instead of the group's global_actions value to
\* decide whether it is scoped to the matched parent (global false) or
\* unscoped (global true), and the flag changes the scoping of that action
\* only, not of its siblings.
C21_ActionGlobalOverrides ==
    FromGroupAction =>
        last.parent = IF xl.has_global
                      THEN (IF xl.global THEN NoParent ELSE MatchedParent)
                      ELSE (IF xl.global_actions THEN NoParent
                            ELSE MatchedParent)

\* C21, with the flag adding to the group's value: a nested action is
\* unscoped when the group's global_actions or its own "global" is true
\* and scoped to the matched parent otherwise, so its own flag decides for
\* that action only, and only in a group without global_actions.
C21_ActionGlobalAdds ==
    FromGroupAction =>
        last.parent = IF xl.global_actions \/ xl.global THEN NoParent
                      ELSE MatchedParent

\* C21: in a group without global_actions, the second action of the list,
\* without the flag, has run scoped to the matched parent after a first
\* action with global true.
C21_Witness ==
    /\ FromGroupAction /\ ~xl.global_actions /\ xl.j = 2
    /\ ~xl.has_global /\ last.parent = MatchedParent
    /\ stack # <<>> /\ "global" \in DOMAIN stack[1].actions[1]
    /\ stack[1].actions[1].global

\* C21: an action with global true has run without parent in a group
\* without global_actions, and an action with global false has run without
\* parent in a group with global_actions.
C21_WitnessUnscoped ==
    FromGroupAction /\ ~xl.global_actions /\ xl.global
      /\ last.parent = NoParent
C21_WitnessNotOverridden ==
    FromGroupAction /\ xl.global_actions /\ xl.has_global /\ ~xl.global
      /\ last.parent = NoParent

\* The latest dispatch was of an array step that went on to its parents.
ArrayRan ==
    xl.type = "array" /\ "visits" \in DOMAIN xl /\ xl.checked = "nth"
      /\ xl.children > 0

\* The parents a step with count matched parents is to process: all of
\* them in index order, or the one array_select_one names.
ParentsToProcess(has_idx, idx, count) ==
    IF has_idx THEN <<idx>> ELSE [i \in 1..count |-> i - 1]

\* The child clicks an array step tried are, in this order, the children
\* of its "click" list for the first of its parents, then for the next
\* one, with no parent taken up again.
ArrayInOrder ==
    ArrayRan =>
        /\ xl.indices = ParentsToProcess(xl.has_idx, xl.idx, xl.count)
        /\ \A p \in 1..Len(xl.visits) :
             /\ xl.visits[p].parent = xl.indices[((p - 1) \div xl.children) + 1]
             /\ xl.visits[p].child = ((p - 1) % xl.children) + 1

\* The group_action calls in progress before and after a step.
SameGroupCalls ==
    {d \in 1..Len(stack) : d <= Len(stack') /\ stack[d].kind = "group_action"}

\* A group_action call is at pass i for the i-th of the parents it is to
\* process, which are those the step's array_select_one and the number of
\* matched parents give.
GroupInOrder ==
    /\ \A d \in 1..Len(stack) :
         stack[d].kind = "group_action"
           => /\ stack[d].passes \in 1..Len(stack[d].all)
              /\ stack[d].indices
                   = SubSeq(stack[d].all, stack[d].passes, Len(stack[d].all))
              /\ \/ stack[d].all = ParentsToProcess(FALSE, 0, stack[d].total)
                 \/ \E k \in 0..(stack[d].total - 1) :
                      stack[d].all = ParentsToProcess(TRUE, k, stack[d].total)
    /\ xl.type = "group_action" /\ xl.push
         => /\ Top(stack).all = ParentsToProcess(xl.has_idx, xl.idx, xl.count)
            /\ Top(stack).total = xl.count
            /\ Top(stack).passes = 1 /\ Top(stack).j = 1

\* A group_action call goes to the first action of its next pass only from
\* the last action of the list.
GroupPassOrder ==
    \A d \in SameGroupCalls :
        \/ stack'[d].passes = stack[d].passes
             /\ stack'[d].j \in {stack[d].j, stack[d].j + 1}
        \/ /\ stack'[d].passes = stack[d].passes + 1
           /\ stack'[d].j = 1
           /\ stack[d].j = Len(stack'[d].actions) /\ ~stack'[d].more

\* Every parent to process has been processed when the step ends.
AllParentsDone ==
    /\ ArrayRan => Len(xl.visits) = Len(xl.indices) * xl.children
    /\ \A e \in EndedCalls("group_action") : e.passes = Len(e.all)

\* Every parent to process has been processed when the step returns.
AllParentsDoneAtReturn ==
    /\ ArrayRan /\ xl.ok => Len(xl.visits) = Len(xl.indices) * xl.children
    /\ \A e \in EndedCalls("group_action") :
         e.how = "returned" => e.passes = Len(e.all)

\* C22: with no array_select_one, array and group_action process each
\* matched parent exactly once in index order 0..N-1, finishing all
\* children or actions of parent i before starting parent i+1; with
\* array_select_one = k in range they process parent k only.
C22_EachParentOnce ==
    []ArrayInOrder /\ []GroupInOrder /\ []AllParentsDone
      /\ [][GroupPassOrder]_vars

\* C22, for the steps that no failure ends: the parents are taken in index
\* order, never twice, each with all its children or actions before the
\* next one, parent k only with array_select_one = k, and a step that
\* returns has processed every one of them.
C22_ParentsInOrder ==
    []ArrayInOrder /\ []GroupInOrder /\ []AllParentsDoneAtReturn
      /\ [][GroupPassOrder]_vars

\* C22: an array step with two children and two matched parents has
\* clicked child 1 and child 2 of parent 0, then those of parent 1.
C22_Witness ==
    /\ ArrayRan /\ ~xl.has_idx /\ xl.ok /\ xl.count = 2
    /\ Len(xl.visits) = 4
    /\ xl.visits[2] = [parent |-> 0, child |-> 2, clicked |-> TRUE]
    /\ xl.visits[3] = [parent |-> 1, child |-> 1, clicked |-> TRUE]

\* C22: a group_action has returned after one pass for each of its two
\* parents; one with array_select_one = 1 after one pass, for parent 1;
\* an array step with array_select_one = 1 has processed parent 1 only.
C22_WitnessGroup ==
    \E e \in EndedCalls("group_action") :
        e.how = "returned" /\ e.passes = 2 /\ e.all = <<0, 1>>
C22_WitnessGroupOne ==
    \E e \in EndedCalls("group_action") :
        e.how = "returned" /\ e.passes = 1 /\ e.all = <<1>> /\ e.total = 2
C22_WitnessArrayOne ==
    /\ ArrayRan /\ xl.has_idx /\ xl.idx = 1 /\ xl.ok /\ xl.count = 2
    /\ \A p \in 1..Len(xl.visits) : xl.visits[p].parent = 1

\* C22: a child click that failed without ignore has ended an array step
\* at its first parent of two.
C22_WitnessFailed ==
    /\ ArrayRan /\ ~xl.ok /\ Len(xl.indices) = 2
    /\ xl.visits[Len(xl.visits)].parent = 0

\* The steps that take array_select_one.
IndexedTypes ==
    {"click", "write", "write_excel", "select", "scroll",
     "download_from_link", "array", "group_action"}

\* The latest dispatch was of such a step, and its executor has counted
\* the elements its locator matches.
IndexChecked ==
    xl.type \in IndexedTypes /\ "checked" \in DOMAIN xl /\ xl.checked # "none"

\* No element matches, or the step's index is outside [0, count).
OutOfRange ==
    xl.count = 0 \/ (xl.has_idx /\ (xl.idx < 0 \/ xl.idx >= xl.count))

\* C23: for every step that takes array_select_one (click, write,
\* write_excel, select, scroll, download_from_link, array, group_action),
\* the index is checked against the match count read at that moment: when
\* the count is zero or the index is outside [0, count), no element is
\* acted on, and the step raises an error if ignore is false and returns
\* with a warning and no exception if ignore is true.
C23_IndexChecked ==
    IndexChecked =>
        IF OutOfRange
        THEN /\ ~xl.acted /\ xl.visits = <<>> /\ ~xl.push
             /\ xl.checked = IF xl.ignore THEN "return" ELSE "raise"
             /\ xl.kind = "run" => (fatal_error <=> ~xl.ignore)
        ELSE xl.checked = "nth"

\* C23: a click with array_select_one = 1 and ignore true, on a page with
\* one matching element, has returned without acting on an element, and
\* the run goes on.
C23_Witness ==
    /\ IndexChecked /\ xl.type = "click" /\ xl.kind = "run"
    /\ xl.idx = 1 /\ xl.count = 1 /\ xl.ignore
    /\ xl.checked = "return" /\ ~xl.acted /\ ~fatal_error /\ rpc = "loop"

\* C23: each of the eight step types has raised for an index outside the
\* range (for a match count of zero) without ignore.
C23_WitnessRaised ==
    /\ IndexChecked /\ OutOfRange /\ ~xl.ignore /\ xl.checked = "raise"
    /\ xl.type = "select" /\ xl.idx = -1 /\ fatal_error
C23_WitnessExcel ==
    /\ IndexChecked /\ xl.type = "write_excel" /\ xl.kind = "group_excel"
    /\ xl.idx = 1 /\ xl.count = 1 /\ ~xl.ignore /\ xl.checked = "raise"
C23_WitnessGroups ==
    /\ IndexChecked /\ xl.type \in {"array", "group_action"}
    /\ xl.idx = xl.count /\ xl.count > 0 /\ xl.ignore
    /\ xl.checked = "return" /\ ~fatal_error

\* C23: a write with array_select_one = 1 has acted on the second of two
\* matching elements.
C23_WitnessInRange ==
    /\ IndexChecked /\ xl.type = "write" /\ xl.idx = 1 /\ xl.count = 2
    /\ xl.acted

\* The latest dispatch was of a click with an "if" condition that has a
\* status.
ClickedWhen ==
    xl.type = "click" /\ "has_if" \in DOMAIN xl /\ xl.has_if
      /\ xl.status # ""

\* The condition is satisfied: status found and elements match it, or
\* status not_found and none does.
Satisfied ==
    \/ xl.status = "found" /\ xl.cond_count > 0
    \/ xl.status = "not_found" /\ xl.cond_count = 0

\* C24: for a click step with an "if" record: when the condition is
\* satisfied only the entries of the condition's click list are executed,
\* each as a click step, and the outer click is not performed; when it is
\* not satisfied (status found or not_found) only the outer click is
\* performed.  In no execution are both performed.
C24_EitherOr ==
    /\ ClickedWhen /\ Satisfied
         => /\ ~xl.outer /\ xl.alt <= xl.listed
            /\ xl.ok => xl.alt = xl.listed
    /\ ClickedWhen /\ ~Satisfied /\ xl.status \in {"found", "not_found"}
         => xl.outer /\ xl.alt = 0
    /\ xl.type = "click" /\ "outer" \in DOMAIN xl => ~(xl.outer /\ xl.alt > 0)

\* C24: a click whose condition, with status not_found, matched nothing
\* has run the two clicks of the condition's list and not its own.
C24_Witness ==
    /\ ClickedWhen /\ xl.status = "not_found" /\ xl.cond_count = 0
    /\ xl.listed = 2 /\ xl.alt = 2 /\ ~xl.outer /\ xl.ok

\* C24: a click whose condition, with status found, matched nothing has
\* run its own click only; one whose first listed click raised has run
\* that one only; one with an unknown status has run neither.
C24_WitnessOuter ==
    /\ ClickedWhen /\ xl.status = "found" /\ xl.cond_count = 0
    /\ xl.listed = 2 /\ xl.alt = 0 /\ xl.outer /\ xl.acted
C24_WitnessAltFailed ==
    /\ ClickedWhen /\ Satisfied /\ xl.listed = 2 /\ xl.alt = 1
    /\ ~xl.outer /\ ~xl.ok
C24_WitnessUnknownStatus ==
    ClickedWhen /\ xl.status = "maybe" /\ ~xl.outer /\ xl.alt = 0 /\ ~xl.ok

\* ------------------------------------------------------------------------
\* The keep-alive of run
\* ------------------------------------------------------------------------
\* A top-level step has failed without ignore: run holds its error (a
\* step without a type fails before it is dispatched, and leaves no
\* record).
Failed == fatal_error

\* Once the error is held, no step is dispatched: the record of the failed
\* step is the latest one, and the loops stay where they were.
NothingAfterFailure ==
    [][Failed => err' = err /\ stack' = stack /\ rpc' # "loop"
                   /\ fatal_error' /\ current_frame' = current_frame]_vars

\* A step of run itself never changes the pages of the open browser: only
\* the user's closing one does, and run then changes nothing.
BrowserLeftOpen ==
    [][rpc # "start" /\ pages' # pages
         => pages' = pages - 1 /\ rpc' = rpc /\ rpc = "keepalive"
              /\ run_result' = run_result]_vars

\* The keep-alive loop is left only by a poll that finds no page or fails.
KeptAliveUntilClosed ==
    [][rpc = "keepalive" /\ rpc' # "keepalive"
         => rpc' = "done" /\ xl'.type = "poll"
              /\ (pages = 0 \/ xl'.failed)]_vars

\* The held error is raised when the loop is left, and not before.
RaisedOnlyThen ==
    /\ [](Failed /\ rpc # "done" => run_result = "none")
    /\ [](Failed /\ rpc = "done" => run_result = "raised"
                                      /\ (err # NoErr => ~err.ok))
    /\ [](run_result = "raised" => Failed /\ rpc = "done")

\* C25: when a top-level step fails without ignore, run dispatches no
\* further step, does not close the browser itself, stays in its keep-alive
\* loop until a poll finds no page open or fails, and only then raises the
\* error of that step.
C25_KeepAlive ==
    /\ NothingAfterFailure
    /\ BrowserLeftOpen
    /\ KeptAliveUntilClosed
    /\ RaisedOnlyThen

\* The error of a failed step was raised after the user closed every page.
C25_Witness ==
    /\ Failed /\ run_result = "raised" /\ pages = 0
    /\ xl.type = "poll" /\ ~xl.failed /\ err # NoErr /\ err.depth = 0

\* It was raised with a page still open, the poll having failed.
C25_WitnessQueryFailed ==
    Failed /\ run_result = "raised" /\ pages > 0 /\ xl.type = "poll"
      /\ xl.failed

\* The loop polled with a page open, and went on, holding the error of a
\* step that failed inside a group.
C25_WitnessWaiting ==
    Failed /\ rpc = "keepalive" /\ pages = MaxPages /\ xl.type = "poll"
      /\ err.depth > 0

\* ------------------------------------------------------------------------
\* The launch of the browser
\* ------------------------------------------------------------------------
\* run has launched, and found the profile directory locked.
LockedProfile == xl.type = "launch" /\ xl.locked

\* C26: when the launch fails because another run holds the profile
\* directory, run launches once more with a suffixed directory name, logs
\* a warning and goes on to execute the workflow.
C26_RetriesLockedProfile ==
    [](LockedProfile => /\ xl.calls = 2 /\ xl.suffixed /\ xl.warned
                        /\ rpc = "loop" /\ run_result = "none")

\* The locked profile ends run with the error of the launch: one call, no
\* warning, no step dispatched.
C26_LockedProfileRaises ==
    /\ [](LockedProfile => /\ xl.calls = 1 /\ ~xl.suffixed /\ ~xl.warned
                           /\ rpc = "done" /\ run_result = "raised"
                           /\ ~fatal_error /\ stack = <<>>)
    /\ [][LockedProfile => UNCHANGED vars]_vars

\* run has ended on a locked profile.
C26_Witness ==
    LockedProfile /\ rpc = "done" /\ run_result = "raised" /\ pages = 0

\* ------------------------------------------------------------------------
\* Downloads
\* ------------------------------------------------------------------------
\* The latest dispatch was of a download_from_link step that reached its
\* link and went on to download.
Downloaded == xl.type = "download_from_link" /\ xl.acted

\* The latest dispatch called download_subtitle_direct.
Fetched == Downloaded /\ xl.subtitle.called

\* C27: every page download_subtitle_direct opens is closed when it
\* returns, on every path, an exception raised by navigation, evaluation
\* or file writing included.
C27_TransientPageClosed ==
    Fetched => /\ xl.subtitle.closed = xl.subtitle.opened
               /\ pages = xl.before

\* The page is closed on the paths that end at a return of the try block,
\* and left open when a call after new_page raises.
C27_ClosedUnlessRaised ==
    (Fetched =>
         /\ xl.subtitle.opened = (IF xl.fetch.raises = "new_page" THEN 0 ELSE 1)
         /\ xl.subtitle.closed = (IF xl.subtitle.raised THEN 0 ELSE 1)
         /\ xl.subtitle.raised => ~xl.subtitle.result
         /\ pages = xl.before + xl.subtitle.opened - xl.subtitle.closed)

\* goto raised: download_subtitle_direct returned False with its page open.
C27_Witness ==
    /\ Fetched /\ xl.fetch.raises = "goto" /\ xl.subtitle.raised
    /\ xl.subtitle.opened = 1 /\ xl.subtitle.closed = 0
    /\ pages = xl.before + 1 /\ xl.requests

\* The page was closed: on success, and with no response.
C27_WitnessClosed ==
    Fetched /\ xl.subtitle.result /\ xl.subtitle.closed = 1
      /\ pages = xl.before
C27_WitnessNoResponse ==
    Fetched /\ ~xl.fetch.response /\ ~xl.subtitle.raised
      /\ xl.subtitle.closed = 1 /\ ~xl.subtitle.result

DotVtt == <<".", "v", "t", "t">>
DotSrt == <<".", "s", "r", "t">>
DotStr == <<".", "s", "t", "r">>

\* C28: download_from_link calls the subtitle download first exactly when
\* the extension it found is .vtt or .srt, and calls the direct download
\* alone for every other extension.
C28_SubtitleFirst ==
    Downloaded => /\ xl.subtitle.called <=> xl.ext \in {DotVtt, DotSrt}
                  /\ ~xl.subtitle.called => xl.requests

\* It does so for .vtt and .str.
C28_VttOrStr ==
    (Downloaded =>
         /\ xl.subtitle.called <=> xl.ext \in {DotVtt, DotStr}
         /\ xl.requests <=> ~(xl.subtitle.called /\ xl.subtitle.result))

\* An .srt file was downloaded directly.
C28_Witness ==
    Downloaded /\ xl.ext = DotSrt /\ ~xl.subtitle.called /\ xl.requests

\* An .str file went through the subtitle download, and a .vtt file too.
C28_WitnessStr == Downloaded /\ xl.ext = DotStr /\ xl.subtitle.called
C28_WitnessVtt ==
    Downloaded /\ xl.ext = DotVtt /\ xl.subtitle.called /\ ~xl.requests

\* The texts an extension is taken from: the step's field, the value of the
\* URL's first fileExtension= parameter, the text after the last "." of
\* the URL's path.
FieldText(step) ==
    IF "extension" \in DOMAIN step THEN step.extension
    ELSE IF "file_extension" \in DOMAIN step THEN step.file_extension
    ELSE IF "ext" \in DOMAIN step THEN step.ext
    ELSE <<>>
HasField(step) == DOMAIN step \cap {"extension", "file_extension", "ext"} # {}
ParamText(query) ==
    LET params == SplitAt(query, "&")
        named == {i \in 1..Len(params) : HasPrefix(params[i], FileExtensionEq)}
        first == CHOOSE i \in named : \A k \in named : i <= k
        value == SubSeq(params[first], Len(FileExtensionEq) + 1,
                        Len(params[first]))
    IN  IF named = {} THEN <<>> ELSE SplitAt(value, "=")[1]
HasDot(path) == \E i \in 1..Len(path) : path[i] = "."
AfterLastDot(path) ==
    LET dots == {i \in 1..Len(path) : path[i] = "."}
        k == CHOOSE i \in dots : \A m \in dots : m <= i
    IN  IF dots = {} THEN <<>> ELSE SubSeq(path, k + 1, Len(path))

\* A text as an extension: without the unsafe characters, in lower case,
\* after a ".".
Dotted(text) ==
    LET clean == Lower(Removed(text))
    IN  IF clean # <<>> /\ clean[1] = "." THEN clean ELSE <<".">> \o clean
OneLeadingDot(ext) ==
    ext # <<>> /\ ext[1] = "." /\ (Len(ext) > 1 => ext[2] # ".")

\* C29: the extension is the step's field if present, else the value of
\* the fileExtension= parameter if present and not empty, else the text
\* after the last "." of the path if the path has a ".", else .mp4; it
\* starts with exactly one ".".
C29_StrictPriority ==
    (Downloaded =>
         /\ xl.ext = (IF HasField(xl.step) THEN Dotted(FieldText(xl.step))
                      ELSE IF ParamText(xl.href.query) # <<>>
                      THEN Dotted(ParamText(xl.href.query))
                      ELSE IF HasDot(xl.href.path)
                      THEN Dotted(AfterLastDot(xl.href.path))
                      ELSE DotMp4)
         /\ OneLeadingDot(xl.ext))

\* The first of the three texts that is not empty is taken, and .mp4 when
\* all are; a "." is put before the text unless it starts with one.
C29_ExtensionPriority ==
    (Downloaded =>
         /\ xl.ext = (IF FieldText(xl.step) # <<>>
                      THEN Dotted(FieldText(xl.step))
                      ELSE IF ParamText(xl.href.query) # <<>>
                      THEN Dotted(ParamText(xl.href.query))
                      ELSE IF AfterLastDot(xl.href.path) # <<>>
                      THEN Dotted(AfterLastDot(xl.href.path))
                      ELSE DotMp4)
         /\ xl.ext[1] = ".")

\* The parameter of the query was taken over the path's extension.
C29_Witness ==
    /\ Downloaded /\ ~HasField(xl.step)
    /\ ParamText(xl.href.query) = <<"v", "t", "t">>
    /\ AfterLastDot(xl.href.path) = <<"S", "R", "T">>
    /\ xl.ext = DotVtt

\* The field was taken over both; an empty field was passed over; a path
\* ending in "." gave .mp4; a field starting with two dots kept them.
C29_WitnessField ==
    Downloaded /\ FieldText(xl.step) = <<"v", "t", "t">>
      /\ ParamText(xl.href.query) = <<".", "s", "r", "t">> /\ xl.ext = DotVtt
C29_WitnessEmptyField ==
    Downloaded /\ HasField(xl.step) /\ FieldText(xl.step) = <<>>
      /\ xl.ext = DotSrt
C29_WitnessPathEndsInDot ==
    Downloaded /\ ~HasField(xl.step) /\ HasDot(xl.href.path)
      /\ AfterLastDot(xl.href.path) = <<>> /\ xl.ext = DotMp4
C29_WitnessTwoDots ==
    Downloaded /\ xl.ext = <<".", ".", "v", "t", "t">>
C29_WitnessPath ==
    Downloaded /\ ~HasField(xl.step) /\ xl.href.query = <<>>
      /\ xl.ext = <<".", "b", "c">>

\* s is t with "_" for each unsafe character.
Sanitized(t, s) ==
    /\ Len(s) = Len(t)
    /\ \A i \in 1..Len(t) : s[i] = IF t[i] \in UnsafeChars THEN "_" ELSE t[i]

\* The file name of path p in directory dir: the text after dir and "/".
InDir(p, dir) == HasPrefix(p, dir \o <<"/">>)
NameIn(p, dir) == SubSeq(p, Len(dir) + 2, Len(p))
DirOf(step) == get_key(step, "download_dir", <<"d">>)
TitleName == <<"d", "o", "w", "n", "l", "o", "a", "d">>

\* The first n characters of the file name, or all of it.
Leading(name, n) == SubSeq(name, 1, IF n <= Len(name) THEN n ELSE Len(name))

\* The file name is the text s, then "_", the index and the extension.
Named(p, dir, s, index, ext) ==
    InDir(p, dir) /\ NameIn(p, dir) = s \o <<"_">> \o Str(index) \o ext

\* C30: the file is written to download_dir / (sanitize(T) + "_" + i +
\* "." + e), sanitize putting "_" for each of \ / * ? : " < > | and
\* leaving the rest of the title as it is.
C30_SanitizedTitle ==
    (Downloaded =>
         LET s == Leading(NameIn(xl.path, DirOf(xl.step)), Len(xl.title))
         IN  /\ Sanitized(xl.title, s)
             /\ Named(xl.path, DirOf(xl.step), s,
                      get_key(xl.step, "index", 1), xl.ext)
             /\ \A i \in 1..Len(s) : s[i] \notin UnsafeChars)

\* The title is stripped of the spaces around it first, and is "download"
\* when nothing is left of it.
C30_StrippedTitle ==
    (Downloaded =>
         LET t == IF Strip(xl.title) = <<>> THEN TitleName
                  ELSE Strip(xl.title)
             s == Leading(NameIn(xl.path, DirOf(xl.step)), Len(t))
         IN  /\ Sanitized(t, s)
             /\ Named(xl.path, DirOf(xl.step), s,
                      get_key(xl.step, "index", 1), xl.ext)
             /\ \A i \in 1..Len(s) : s[i] \notin UnsafeChars)

\* A title with unsafe characters named the file.
C30_Witness ==
    /\ Downloaded /\ xl.title = <<"a", "/", "b", ":", "c", "?">>
    /\ NameIn(xl.path, <<"d">>)
         = <<"a", "_", "b", "_", "c", "_", "_", "1", ".", "v", "t", "t">>

\* A title with spaces around it, an empty one, and an index of two digits.
C30_WitnessSpaces ==
    Downloaded /\ xl.title = <<" ", "a", " ", "b", " ">>
      /\ NameIn(xl.path, <<"d">>)
           = <<"a", " ", "b", "_", "1", ".", "v", "t", "t">>
C30_WitnessNoTitle ==
    Downloaded /\ xl.title = <<>>
      /\ NameIn(xl.path, <<"d">>) = TitleName \o <<"_", "1">> \o DotVtt
C30_WitnessIndex ==
    Downloaded /\ get_key(xl.step, "index", 1) = 12
      /\ NameIn(xl.path, <<"d">>) = <<"T", "_", "1", "2">> \o xl.ext

\* ------------------------------------------------------------------------
\* download_requests on its own
\* ------------------------------------------------------------------------
\* What a GET can meet.
GetOutcomes ==
    {Got(s, "whole") : s \in {200, 202, 206, 204, 404}}
      \cup {Got(200, "unopened"), Got(206, "cut"), NoAnswer}

\* The helpers apart from the one called.
RequestsInit ==
    /\ fpc = "in"
    /\ f_in \in [fn : {"download_requests"},
                 outcomes : [1..Retries -> GetOutcomes],
                 file : {"none", "whole"}]
    /\ f_out = Requested(f_in.file)

\* download_requests, lines 1016-1037: one pass of the loop.
DrAttempt ==
    /\ fpc \in {"in", "loop"} /\ f_in.fn = "download_requests"
    /\ f_out.result = "none" /\ f_out.attempt < Retries
    /\ f_out' = Attempt(f_out, f_in.outcomes[f_out.attempt + 1])
    /\ fpc' = IF f_out'.result = "none" THEN "loop" ELSE "out"
    /\ UNCHANGED f_in
    /\ UNCHANGED <<asmVars, selVars, runVars>>

\* download_requests, line 1038: return False after the last pass.
DrGiveUp ==
    /\ fpc = "loop" /\ f_in.fn = "download_requests"
    /\ f_out.result = "none" /\ f_out.attempt >= Retries
    /\ f_out' = GaveUp(f_out)
    /\ fpc' = "out"
    /\ UNCHANGED f_in
    /\ UNCHANGED <<asmVars, selVars, runVars>>

RequestsNext == DrAttempt \/ DrGiveUp

InitRequests == AsmIdle /\ SelIdle /\ RunIdle /\ RequestsInit

\* One call of download_requests; the loop is not held up for ever.
SpecRequests ==
    InitRequests /\ [][RequestsNext]_vars /\ WF_vars(RequestsNext)

\* ------------------------------------------------------------------------
\* exec_step_select on its own
\* ------------------------------------------------------------------------
\* The JSON values of a step's option fields: null, a number, a string.
Null == [kind |-> "null"]
Num(n) == [kind |-> "int", n |-> n]
Text(s) == [kind |-> "str", s |-> s]

\* to_int_or_none, lines 333-339: int(x) of a number or of a string of
\* digits, None for None and for what int() refuses.
NoInt == [some |-> FALSE, n |-> 0]
to_int_or_none(x) ==
    IF x.kind = "int" THEN [some |-> TRUE, n |-> x.n]
    ELSE IF x.kind = "str" /\ Len(x.s) = 1 /\ x.s[1] \in Digits
    THEN [some |-> TRUE, n |-> DigitVal(x.s[1])]
    ELSE NoInt

\* What exec_step_select did: how it ended, how many times it called
\* select_option and with which keyword arguments.
Selected(result, calls, args) ==
    [result |-> result, calls |-> calls, args |-> args]

\* A keyword argument, if the value is there.
Keyword(name, there, v) == IF there THEN [k \in {name} |-> v] ELSE <<>>

\* exec_step_select with the first of the step's option fields only.
exec_step_select_first_only(step, env) ==
    LET option_value == get_key(step, "option_value", Null)
        option_label == get_key(step, "option_label", Null)
        option_index == to_int_or_none(get_key(step, "option_index", Null))
        select_args ==
            IF option_value.kind # "null" THEN [value |-> option_value]
            ELSE IF option_label.kind # "null" THEN [label |-> option_label]
            ELSE Keyword("index", option_index.some, option_index.n)
        failed == IF Ignore(step) THEN "return" ELSE "raise"
    IN  IF option_value.kind = "null" /\ option_label.kind = "null"
             /\ ~option_index.some
        THEN Selected("raise", 0, <<>>)
        ELSE IF index_check(step, env.count) # "nth"
        THEN Selected(index_check(step, env.count), 0, <<>>)
        ELSE Selected(IF env.ok THEN "return" ELSE failed, 1, select_args)

\* exec_step_select, lines 573-638: the test of the option fields, the
\* test of the index and the call of select_option with the keyword
\* arguments built in lines 622-628.
exec_step_select(step, env) ==
    LET option_value == get_key(step, "option_value", Null)
        option_label == get_key(step, "option_label", Null)
        option_index == to_int_or_none(get_key(step, "option_index", Null))
        select_args ==
            Keyword("value", option_value.kind # "null", option_value)
              @@ Keyword("label", option_label.kind # "null", option_label)
              @@ Keyword("index", option_index.some, option_index.n)
        failed == IF Ignore(step) THEN "return" ELSE "raise"
    IN  IF option_value.kind = "null" /\ option_label.kind = "null"
             /\ ~option_index.some
        THEN Selected("raise", 0, <<>>)
        ELSE IF index_check(step, env.count) # "nth"
        THEN Selected(index_check(step, env.count), 0, <<>>)
        ELSE Selected(IF env.ok THEN "return" ELSE failed, 1, select_args)

\* A key of a step, absent or with one of the values.
Fields(key, values) == {<<>>} \cup {[k \in {key} |-> v] : v \in values}

\* The select steps: each option field absent or present, option_value
\* also null, option_index also a string, with and without ignore and
\* array_select_one.
SelectSteps ==
    {[type |-> "select"] @@ v @@ l @@ i @@ g @@ s :
       v \in Fields("option_value", {Null, Text(<<"v">>)}),
       l \in Fields("option_label", {Text(<<"l">>)}),
       i \in Fields("option_index",
                    {Num(0), Num(1), Text(<<"1">>), Text(<<"x">>)}),
       g \in Fields("ignore", {TRUE}),
       s \in Fields("array_select_one", {1})}

SelectInit ==
    /\ fpc = "in"
    /\ f_in \in [fn : {"exec_step_select"}, step : SelectSteps,
                 env : {Matching(Env(ok, FALSE, "none", 0, 0), k) :
                          ok \in BOOLEAN, k \in 0..MaxParents}]
    /\ f_out = <<>>

\* One call of exec_step_select.
SelectCall ==
    /\ fpc = "in" /\ f_in.fn = "exec_step_select"
    /\ f_out' = exec_step_select(f_in.step, f_in.env)
    /\ fpc' = "out"
    /\ UNCHANGED f_in
    /\ UNCHANGED <<asmVars, selVars, runVars>>

SelectNext == SelectCall

InitSelect == AsmIdle /\ SelIdle /\ RunIdle /\ SelectInit

SpecSelect == InitSelect /\ [][SelectNext]_vars

\* ------------------------------------------------------------------------
\* run_course_automation and the log
\* ------------------------------------------------------------------------
\* The longest workflow run here.
MaxLogged == 2

\* A line of a log: the level, the event and the number of the step.
Line(level, event, idx) == [level |-> level, event |-> event, idx |-> idx]
BlankLine == Line("", "", 0)
FatalLine == Line("", "FATAL", 0)

\* "\n".join(lines), as the lines of the text: the join of no line is the
\* empty text, which has one blank line.
JoinLines(lines) == IF lines = <<>> THEN <<BlankLine>> ELSE lines

\* logger.info, .warning and .error, with the handlers of lines 171-179:
\* the record goes to the file handler and to the stream handler.
logger_log(out, level, event, idx) ==
    [out EXCEPT !.file = Append(@, Line(level, event, idx)),
                !.stream = Append(@, Line(level, event, idx))]

\* The steps run here: a goto or a click that succeeds or fails, a step
\* without type.
LoggedSteps ==
    {[type |-> t, ignore |-> i, ok |-> ok] :
       t \in {"goto", "click"}, i \in BOOLEAN, ok \in BOOLEAN}
      \cup {[type |-> "", ignore |-> i, ok |-> FALSE] : i \in BOOLEAN}

LogInit ==
    /\ fpc = "in"
    /\ f_in \in [fn : {"run_course_automation"}, exists : BOOLEAN,
                 workflow : UNION {[1..n -> LoggedSteps] : n \in 0..MaxLogged}]
    /\ f_out = [LOG_CAPTURE_LIST |-> <<>>, file |-> <<>>, stream |-> <<>>,
                idx |-> 0, fatal_error |-> FALSE,
                success |-> FALSE, text |-> <<>>]

\* run_course_automation, lines 1664-1680, when the workflow file is
\* missing: the list is cleared and the FATAL line returned.
RcaMissing ==
    /\ fpc = "in" /\ f_in.fn = "run_course_automation" /\ ~f_in.exists
    /\ f_out' = [f_out EXCEPT !.LOG_CAPTURE_LIST = <<>>,
                              !.text = JoinLines(<<>>) \o <<FatalLine>>]
    /\ fpc' = "out"
    /\ UNCHANGED f_in
    /\ UNCHANGED <<asmVars, selVars, runVars>>

\* run_course_automation, lines 1664-1674: the list is cleared, the
\* workflow read and run called.
RcaEnter ==
    /\ fpc = "in" /\ f_in.fn = "run_course_automation" /\ f_in.exists
    /\ f_out' = [f_out EXCEPT !.LOG_CAPTURE_LIST = <<>>]
    /\ fpc' = "loop"
    /\ UNCHANGED f_in
    /\ UNCHANGED <<asmVars, selVars, runVars>>

\* run, lines 1572-1634, for one step: the start record, the record of
\* the executor (line 648 for a goto) and the warning or the error of a
\* failure.
LoggedStep(out, step) ==
    LET idx == out.idx + 1
        started == [logger_log(out, "INFO", "step", idx) EXCEPT !.idx = idx]
        failed(o) == IF step.ignore THEN logger_log(o, "WARNING", "ignored", idx)
                     ELSE [logger_log(o, "ERROR", "failed", idx)
                             EXCEPT !.fatal_error = TRUE]
    IN  IF step.type = "" THEN failed(started)
        ELSE IF step.type = "goto"
        THEN (IF step.ok THEN logger_log(started, "INFO", "navigating", idx)
              ELSE failed(started))
        ELSE IF step.ok THEN started
        ELSE failed(started)

RcaStep ==
    /\ fpc = "loop" /\ f_in.fn = "run_course_automation"
    /\ ~f_out.fatal_error /\ f_out.idx < Len(f_in.workflow)
    /\ f_out' = LoggedStep(f_out, f_in.workflow[f_out.idx + 1])
    /\ UNCHANGED <<fpc, f_in>>
    /\ UNCHANGED <<asmVars, selVars, runVars>>

\* run, lines 1636-1658, and run_course_automation, lines 1677-1680: the
\* closing record, and the joined list returned, with the FATAL line
\* after a fatal error.
RcaReturn ==
    /\ fpc = "loop" /\ f_in.fn = "run_course_automation"
    /\ f_out.fatal_error \/ f_out.idx >= Len(f_in.workflow)
    /\ LET closed == IF f_out.fatal_error
                     THEN logger_log(f_out, "WARNING", "stopped", 0)
                     ELSE logger_log(f_out, "INFO", "completed", 0)
       IN  f_out' = [closed EXCEPT
                       !.success = ~f_out.fatal_error,
                       !.text = JoinLines(closed.LOG_CAPTURE_LIST)
                                  \o (IF f_out.fatal_error
                                      THEN <<FatalLine>> ELSE <<>>)]
    /\ fpc' = "out"
    /\ UNCHANGED f_in
    /\ UNCHANGED <<asmVars, selVars, runVars>>

LogNext == RcaMissing \/ RcaEnter \/ RcaStep \/ RcaReturn

InitLog == AsmIdle /\ SelIdle /\ RunIdle /\ LogInit

SpecLog == InitLog /\ [][LogNext]_vars

\* ------------------------------------------------------------------------
\* get_key with its aliases and the letter case of the keys
\* ------------------------------------------------------------------------
\* The keys of a step, spelled out.
Key_value == <<"v", "a", "l", "u", "e">>
Key_Value == <<"V", "a", "l", "u", "e">>
Key_VALUE == <<"V", "A", "L", "U", "E">>
Key_url == <<"u", "r", "l">>
Key_URL == <<"U", "R", "L">>
Key_Url == <<"U", "r", "l">>
Key_attr == <<"a", "t", "t", "r">>
Key_ATTR == <<"A", "T", "T", "R">>
Key_Attr == <<"A", "t", "t", "r">>
Key_arrt == <<"a", "r", "r", "t">>
Key_Arrt == <<"A", "r", "r", "t">>
Key_attribute == <<"a", "t", "t", "r", "i", "b", "u", "t", "e">>
Key_Attribute == <<"A", "t", "t", "r", "i", "b", "u", "t", "e">>
Key_title == <<"t", "i", "t", "l", "e">>

\* A dict whose keys are spelled out: its items in insertion order.
Item(key, value) == [key |-> key, value |-> value]
KeysOf(d) == {d[i].key : i \in DOMAIN d}
\* d[key], for a key of d.
At(d, key) == d[CHOOSE i \in DOMAIN d : d[i].key = key].value
\* The first of the keys of seq that d has, in the order of seq.
FirstIn(seq, d) ==
    seq[CHOOSE i \in DOMAIN seq :
          /\ seq[i] \in KeysOf(d)
          /\ \A j \in 1..(i - 1) : seq[j] \notin KeysOf(d)]
\* The first key of d, in insertion order, equal to key but for the case.
FirstLike(d, key) ==
    d[CHOOSE i \in DOMAIN d :
        /\ Lower(d[i].key) = Lower(key)
        /\ \A j \in 1..(i - 1) : Lower(d[j].key) # Lower(key)].key

\* get_key(d, key, *alts, default=None), lines 319-330: the key as
\* written, then each alias as written, then the keys of d compared with
\* the key, lowered.
get_key_alts(d, key, alts, default) ==
    IF key \in KeysOf(d) THEN At(d, key)
    ELSE IF \E i \in DOMAIN alts : alts[i] \in KeysOf(d)
    THEN At(d, FirstIn(alts, d))
    ELSE IF \E k \in KeysOf(d) : Lower(k) = Lower(key)
    THEN At(d, FirstLike(d, key))
    ELSE default

\* exec_step_goto, lines 644-650: the address is read with
\* get_key(step, "value", "url"), "" standing for the default None; a
\* step without an address raises, another navigates to it.
exec_step_goto(step) ==
    LET url == get_key_alts(step, Key_value, <<Key_url>>, "")
    IN  IF url = "" THEN [result |-> "raise", url |-> ""]
        ELSE [result |-> "navigated", url |-> url]

\* The attribute a locator is built with: get_key(step, "attr", "arrt",
\* "attribute"), lines 116, 572, 679, 725, 799, 856, 930, 1170, 1311; ""
\* stands for the default None, which build_css_selector tests as it does
\* the empty string.
locator_attr(step) ==
    LET attr == get_key_alts(step, Key_attr, <<Key_arrt, Key_attribute>>, "")
    IN  [result |-> IF attr = "" THEN "no_attr" ELSE "attr", attr |-> attr]

\* The dicts of one or two items with keys among ks, no key twice.
Dicts(ks, values) ==
    {<<Item(k, v)>> : k \in ks, v \in values}
      \cup {d \in {<<Item(k1, v1), Item(k2, v2)>> :
                     k1 \in ks, k2 \in ks, v1 \in values, v2 \in values} :
              d[1].key # d[2].key}

GotoKeys ==
    {Key_value, Key_Value, Key_VALUE, Key_url, Key_URL, Key_Url, Key_title}
AttrKeys ==
    {Key_attr, Key_ATTR, Key_Attr, Key_arrt, Key_Arrt, Key_attribute,
     Key_Attribute, Key_title}

KeysInit ==
    /\ fpc = "in"
    /\ f_in \in [fn : {"exec_step_goto"}, step : Dicts(GotoKeys, {"p", "q"})]
                  \cup [fn : {"locator_attr"},
                        step : Dicts(AttrKeys, {"p", "q"})]
    /\ f_out = <<>>

\* One call of exec_step_goto.
GotoCall ==
    /\ fpc = "in" /\ f_in.fn = "exec_step_goto"
    /\ f_out' = exec_step_goto(f_in.step)
    /\ fpc' = "out"
    /\ UNCHANGED f_in
    /\ UNCHANGED <<asmVars, selVars, runVars>>

\* One executor reading the attribute of its locator.
AttrCall ==
    /\ fpc = "in" /\ f_in.fn = "locator_attr"
    /\ f_out' = locator_attr(f_in.step)
    /\ fpc' = "out"
    /\ UNCHANGED f_in
    /\ UNCHANGED <<asmVars, selVars, runVars>>

KeysNext == GotoCall \/ AttrCall

InitKeys == AsmIdle /\ SelIdle /\ RunIdle /\ KeysInit

SpecKeys == InitKeys /\ [][KeysNext]_vars

\* ------------------------------------------------------------------------
\* The assembler's claim on a failed merge
\* ------------------------------------------------------------------------
\* merge_logic has returned False.
MergeFailed == ml_result = "false"

\* The failure was met while saving the output, lines 126-128.
SaveFailed ==
    MergeFailed /\ logs # <<>>
      /\ \E i \in 1..Len(logs) : logs[i].msg = "Error saving output file"

\* C38: whenever merge_logic returns False it has not created or modified
\* the output file.
C38_FalseLeavesOutput == MergeFailed => outFile = NoFile

\* C38, for the returns before the save: when merge_logic returns False
\* because the input is no directory, the output name has no .json, no
\* fragment has a numeric name or nothing was merged, the output file is
\* untouched; a False of the save itself is the only one with a file
\* opened for writing.
C38_FalseBeforeSaveLeavesOutput ==
    /\ (MergeFailed /\ ~SaveFailed) => outFile = NoFile
    /\ (MergeFailed /\ outFile # NoFile) =>
          SaveFailed /\ outFile = PartialFile /\ merged_data # <<>>

\* C38: merge_logic has returned False with nothing merged out of the
\* fragments it read, the output file untouched.
C38_Witness ==
    MergeFailed /\ merged_data = <<>> /\ fileIdx > 0 /\ outFile = NoFile
      /\ apc = "returned"

\* C38: merge_logic has returned False after open(output_path, "w")
\* succeeded and json.dump raised: the output file exists, cut short; and
\* with an output that could not be opened, the file untouched.
C38_WitnessSaveFailed ==
    MergeFailed /\ SaveFailed /\ outFile = PartialFile /\ apc = "returned"
C38_WitnessNotOpened == SaveFailed /\ outFile = NoFile

\* ------------------------------------------------------------------------
\* The claim on the direct HTTP download
\* ------------------------------------------------------------------------
\* download_requests has returned.
Requests == fpc = "out" /\ f_in.fn = "download_requests"

\* The attempts whose answer had an accepted status, and those whose body
\* was also written to the end.
Accepted == {i \in 1..Retries : f_in.outcomes[i].status \in {200, 202, 206}}
Saved == {i \in Accepted : f_in.outcomes[i].stream = "whole"}
\* The attempts that opened the file and raised before the end of the body.
CutShort == {i \in Accepted : f_in.outcomes[i].stream = "cut"}
First(S) == CHOOSE i \in S : \A j \in S : i <= j

\* C34: the direct HTTP download makes at most 3 GET attempts, stops at the
\* first attempt whose status is 200, 202 or 206 and then returns success
\* after writing the body to the output path; it returns failure, having
\* written nothing, when all 3 attempts get another status or raise; and it
\* always terminates.
C34_FirstAcceptedStatus ==
    /\ [](f_in # <<>> /\ f_in.fn = "download_requests"
            => f_out.attempt <= 3)
    /\ [](Requests /\ Accepted # {}
            => /\ f_out.result = "true"
               /\ f_out.attempt = First(Accepted)
               /\ f_out.file = "whole")
    /\ [](Requests /\ Saved = {}
            => f_out.result = "false" /\ f_out.file = f_in.file)
    /\ <>(fpc = "out")

\* C34, with an attempt counted as the success only when its body was
\* written to the end: at most 3 GET attempts are made; the call stops at
\* the first attempt with status 200, 202 or 206 whose body is written
\* without an error and returns success, the whole body at the output
\* path; it returns failure after 3 attempts when each got another status
\* or raised, and then the file at the output path is as it was unless an
\* attempt raised after opening it, which leaves a partial body; one second
\* is slept after each failed attempt; and the call always terminates.
C34_FirstSavedAttempt ==
    /\ [](f_in # <<>> /\ f_in.fn = "download_requests"
            => f_out.attempt <= Retries)
    /\ [](Requests /\ Saved # {}
            => /\ f_out.result = "true"
               /\ f_out.attempt = First(Saved)
               /\ f_out.sleeps = f_out.attempt - 1
               /\ f_out.file = "whole")
    /\ [](Requests /\ Saved = {}
            => /\ f_out.result = "false"
               /\ f_out.attempt = Retries /\ f_out.sleeps = Retries
               /\ f_out.file = IF CutShort = {} THEN f_in.file
                               ELSE "partial")
    /\ <>(fpc = "out")

\* C34: the second attempt has succeeded after a refused first one.
C34_Witness ==
    /\ Requests /\ f_out.result = "true" /\ f_out.attempt = 2
    /\ f_in.outcomes[1].status = 404 /\ f_in.outcomes[2].status = 202

\* C34: an accepted answer whose body could not be written to the end was
\* followed by a further attempt, and three failed attempts have left a
\* partial file; three refused ones have left none.
C34_WitnessRetriedAfterAccepted ==
    Requests /\ f_out.result = "true" /\ First(Accepted) < f_out.attempt
C34_WitnessPartial ==
    Requests /\ f_out.result = "false" /\ f_in.file = "none"
      /\ f_out.file = "partial" /\ f_in.outcomes[3] = NoAnswer
C34_WitnessNothingWritten ==
    Requests /\ f_out.result = "false" /\ f_in.file = "none"
      /\ f_out.file = "none" /\ f_out.attempt = 3

\* ------------------------------------------------------------------------
\* The claims on the downloads that fail
\* ------------------------------------------------------------------------
\* The latest dispatch called download_subtitle_direct and it returned
\* False.
SubtitleFailed == Fetched /\ ~xl.subtitle.result

\* C35: when the subtitle sub-protocol fails (no response, extracted text
\* shorter than 10 characters, or an exception) it writes no subtitle file
\* at the output path and download_from_link then attempts the direct HTTP
\* download of the same URL to the same path exactly once; when it
\* succeeds, the direct HTTP download is not attempted.
C35_FailedSubtitleFallsBack ==
    Fetched =>
        IF xl.subtitle.result
        THEN ~xl.requests /\ xl.direct = NotRequested
        ELSE /\ xl.subtitle.file = "none"
             /\ xl.requests /\ xl.asked = xl.sent
             /\ xl.direct.result \in {"true", "false"}

\* C35, with the file an exception can leave: the sub-protocol succeeds
\* only with a response and an extracted text of 10 characters or more,
\* has then written the file, and the direct HTTP download is not
\* attempted; when it fails (no response, shorter text, or an exception)
\* download_from_link attempts the direct HTTP download of the same URL to
\* the same path exactly once, and the sub-protocol has written no file at
\* the output path unless the exception came from writing the file, which
\* leaves a partial one, or came after it, which leaves the whole.
C35_FallbackOnce ==
    Fetched =>
        IF xl.subtitle.result
        THEN /\ ~xl.requests /\ xl.direct = NotRequested /\ xl.asked = <<>>
             /\ xl.fetch.response /\ xl.fetch.length >= 10
             /\ xl.subtitle.file = "whole"
        ELSE /\ xl.requests /\ xl.asked = xl.sent
             /\ xl.sent = <<xl.href, xl.path>>
             /\ xl.direct.result \in {"true", "false"}
             /\ xl.direct.attempt \in 1..Retries
             /\ xl.subtitle.file =
                  IF ~xl.subtitle.raised THEN "none"
                  ELSE IF xl.fetch.raises = "write" THEN "partial"
                  ELSE IF xl.fetch.raises = "getsize" THEN "whole"
                  ELSE "none"
             /\ (~xl.subtitle.raised
                   => ~xl.fetch.response \/ xl.fetch.length < 10)

\* C35: a text of 9 characters made the sub-protocol fail without a file,
\* and the direct HTTP download that followed saved one at its second
\* attempt.
C35_Witness ==
    /\ SubtitleFailed /\ ~xl.subtitle.raised /\ xl.fetch.length = 9
    /\ xl.subtitle.file = "none"
    /\ xl.direct.result = "true" /\ xl.direct.attempt = 2
    /\ xl.direct.file = "whole"

\* C35: the sub-protocol has failed without a response and by an exception
\* of goto, has succeeded without a direct download, and has failed with
\* its file written.
C35_WitnessNoResponse ==
    SubtitleFailed /\ ~xl.fetch.response /\ xl.requests
      /\ xl.direct.result = "false"
C35_WitnessRaised ==
    SubtitleFailed /\ xl.fetch.raises = "goto" /\ xl.requests
      /\ xl.subtitle.file = "none"
C35_WitnessSucceeded == Fetched /\ xl.subtitle.result /\ ~xl.requests
C35_WitnessFileLeft ==
    SubtitleFailed /\ xl.subtitle.file = "whole" /\ xl.requests
      /\ xl.direct.result = "false" /\ xl.direct.file = "whole"

\* Every download the latest download_from_link step attempted has failed.
NothingDownloaded ==
    /\ Downloaded /\ ~xl.subtitle.result
    /\ xl.requests /\ xl.direct.result = "false"

C40_WitnessBoth ==
    NothingDownloaded /\ xl.subtitle.called /\ ~Ignore(xl.step)
      /\ run_result = "returned"
C40_WitnessIgnore ==
    NothingDownloaded /\ Ignore(xl.step) /\ rpc = "loop"
C40_WitnessNested ==
    NothingDownloaded /\ stack # <<>> /\ rpc = "loop"

\* ------------------------------------------------------------------------
\* The claims on the frame around groups and failed steps
\* ------------------------------------------------------------------------
\* The latest dispatch was of a frame or main_frame step that succeeded.
FrameChanged == last.type \in {"frame", "main_frame"} /\ last.ok

\* Every group call in progress was entered with the frame of its caller:
\* run's current_frame for the outermost, the caller's local_frame for a
\* nested one.
EnteredWithCallersFrame ==
    \A i \in 1..Len(stack) :
        stack[i].current_frame = IF i = 1 THEN current_frame
                                 ELSE stack[i - 1].local_frame

\* A group call about to run the first action of a parent or row has the
\* frame it was entered with.
IterationStartsWithEntryFrame ==
    \A i \in 1..Len(stack) :
        stack[i].j = 1 => stack[i].local_frame = stack[i].current_frame

\* The frame a nested frame or main_frame step selected is the frame of
\* the next action of the same iteration.
LaterActionsSeeFrame ==
    (stack # <<>> /\ FrameChanged /\ follow)
        => Top(stack).local_frame = last.after

\* No step of a group changes run's current_frame, entering and leaving
\* the group included.
GroupKeepsCallersFrame ==
    [][(stack # <<>> \/ stack' # <<>>) => current_frame' = current_frame]_vars

\* C37: a frame or main_frame step nested in group_action or group_excel
\* changes the frame only for the later actions of the same iteration:
\* every iteration (parent or row) starts with the frame that was current
\* when the group was entered, and after the group returns the
\* dispatcher's current_frame is exactly what it was before the group.
C37_NestedFrameIsLocal ==
    /\ [](EnteredWithCallersFrame /\ IterationStartsWithEntryFrame
            /\ LaterActionsSeeFrame)
    /\ GroupKeepsCallersFrame

\* C37: after a nested frame step selected f1 in a group entered without a
\* frame, the next parent or row starts without a frame.
C37_Witness ==
    /\ stack # <<>> /\ FrameChanged /\ last.after = "f1"
    /\ Top(stack).j = 1 /\ Top(stack).current_frame = NoFrame
    /\ Top(stack).local_frame = NoFrame /\ current_frame = NoFrame

\* C37: the frame a nested step selected is the frame of the next action;
\* and the group has returned after a nested main_frame step, with run's
\* current_frame still f1.
C37_WitnessLater ==
    /\ stack # <<>> /\ FrameChanged /\ follow /\ last.after = "f1"
    /\ Top(stack).local_frame = "f1" /\ Top(stack).current_frame = NoFrame
C37_WitnessReturned ==
    /\ stack = <<>> /\ rpc = "loop" /\ nestedScope
    /\ last.type = "main_frame" /\ last.ok /\ last.seen = "f1"
    /\ current_frame = "f1"

\* A step of run's own loop dispatched a frame or goto step that failed
\* under ignore: the loop goes on.
TopScopeStepIgnored ==
    /\ stack = <<>> /\ rpc = "loop"
    /\ stack' = <<>> /\ rpc' = "loop"
    /\ last' # last \/ prev' # prev
    /\ last'.type \in {"frame", "goto"} /\ ~last'.ok

\* C39: when a top-level frame step fails (no target field, unknown name
\* or URL, index out of range) or a top-level goto step fails (missing
\* url, navigation error) and the step has ignore true, current_frame
\* keeps the value it had before the step, and the next sibling runs in
\* that scope: every step of run's loop is dispatched with current_frame.
C39_FailedScopeStepKeepsFrame ==
    /\ [][TopScopeStepIgnored
            => /\ current_frame' = current_frame
               /\ last'.seen = current_frame /\ last'.after = current_frame
               /\ ~fatal_error']_vars
    /\ [][(stack = <<>> /\ rpc = "loop" /\ last' # last)
            => last'.seen = current_frame]_vars

\* C39: a frame step has failed under frame f1 and the loop goes on with
\* f1; the click dispatched next has resolved its locator against f1.
C39_Witness ==
    /\ stack = <<>> /\ rpc = "loop" /\ ~fatal_error
    /\ last.type = "frame" /\ ~last.ok /\ last.seen = "f1"
    /\ current_frame = "f1"

\* C39: the same for a goto, and the next sibling, a click, has resolved
\* its locator against f1.
C39_WitnessGoto ==
    /\ stack = <<>> /\ rpc = "loop" /\ ~fatal_error
    /\ last.type = "goto" /\ ~last.ok /\ last.seen = "f1"
    /\ current_frame = "f1"
C39_WitnessSibling ==
    /\ stack = <<>> /\ prev.type = "goto" /\ ~prev.ok
    /\ last.type = "click" /\ last.seen = "f1"
    /\ \E r \in Resolutions : r.root = FrameRoot("f1")

\* The latest dispatch was of an array step with ignore true that went on
\* to its parents, and one of its child clicks failed.
IgnoringArrayMetFailure ==
    /\ ArrayRan /\ xl.ignore
    /\ \E p \in 1..Len(xl.visits) : ~xl.visits[p].clicked

\* The array step tried every child click of every parent it was to
\* process.
ArrayWentThroughAll ==
    Len(xl.visits) = Len(xl.indices) * xl.children

\* C36: for an array step with ignore true, a failing child click is
\* covered by the array's ignore as by the child's own: the step goes on
\* with the next child click and the next parent, and tries them all.
C36_ArrayIgnoreCoversChildren ==
    IgnoringArrayMetFailure => ArrayWentThroughAll

\* C36: an array step with ignore true and two matched parents has ended
\* at a failing child click of its first parent, with the clicks of the
\* second parent not tried, and the run has gone on.
C36_Witness ==
    /\ IgnoringArrayMetFailure /\ ~xl.ok /\ ~fatal_error
    /\ Len(xl.indices) = 2
    /\ xl.visits[Len(xl.visits)].parent = 0
    /\ ~xl.visits[Len(xl.visits)].clicked
    /\ ~ArrayWentThroughAll

\* C36: a child click with its own ignore has failed and the array step
\* has gone on to the next child click.
C36_WitnessOwnIgnore ==
    /\ IgnoringArrayMetFailure /\ xl.children = 2
    /\ Len(xl.visits) >= 2 /\ ~xl.visits[1].clicked

\* A call of exec_step_select has ended.
SelectDone == fpc = "out" /\ f_in.fn = "exec_step_select"

\* The option selectors the step holds: the fields of option_value and
\* option_label that are not null, option_index if it is an integer.
SelectorsPresent ==
    {k \in {"option_value", "option_label"} :
       k \in DOMAIN f_in.step /\ f_in.step[k].kind # "null"}
      \cup {k \in {"option_index"} :
              /\ k \in DOMAIN f_in.step
              /\ \/ f_in.step[k].kind = "int"
                 \/ f_in.step[k].kind = "str" /\ f_in.step[k].s = <<"1">>}

\* The keyword of select_option for an option field.
KeywordOf(k) ==
    CASE k = "option_value" -> "value" [] k = "option_label" -> "label"
      [] k = "option_index" -> "index"

\* A step with no option selector is an error, whatever its ignore, and
\* select_option is not called.
NoSelectorIsError ==
    (SelectDone /\ SelectorsPresent = {})
        => f_out.result = "raise" /\ f_out.calls = 0

\* C32: a select step applies exactly one option selector (one of
\* option_value, option_label, option_index) to the select element, for
\* every combination of those fields present on the step; a step with
\* none of them is an error.
C32_ExactlyOneSelector ==
    /\ NoSelectorIsError
    /\ (SelectDone /\ f_out.calls > 0)
         => Cardinality(DOMAIN f_out.args) = 1

\* C32, as the code has it: a select step applies, in one call of
\* select_option, every option selector present on the step, so exactly
\* one when exactly one of the fields is present; a step with none of
\* them is an error.
C32_EverySelectorPresent ==
    /\ NoSelectorIsError
    /\ (SelectDone /\ f_out.calls > 0)
         => /\ f_out.calls = 1
            /\ DOMAIN f_out.args = {KeywordOf(k) : k \in SelectorsPresent}
            /\ (Cardinality(SelectorsPresent) = 1
                  => Cardinality(DOMAIN f_out.args) = 1)

\* C32: a step with option_value and option_index has had both passed to
\* select_option.
C32_Witness ==
    /\ SelectDone /\ f_out.calls = 1
    /\ SelectorsPresent = {"option_value", "option_index"}
    /\ DOMAIN f_out.args = {"value", "index"}

\* C32: a step with option_label only has had it applied; a step whose
\* only option field is an option_index that is no integer has raised.
C32_WitnessOne ==
    /\ SelectDone /\ f_out.calls = 1
    /\ DOMAIN f_in.step \cap {"option_value", "option_label", "option_index"}
         = {"option_label"}
    /\ DOMAIN f_out.args = {"label"}
C32_WitnessNone ==
    /\ SelectDone /\ "option_index" \in DOMAIN f_in.step
    /\ SelectorsPresent = {} /\ f_out.result = "raise"
    /\ "ignore" \in DOMAIN f_in.step

\* A call of run_course_automation has returned.
RcaDone == fpc = "out" /\ f_in.fn = "run_course_automation"

\* The start records of a log, in the order they stand in it.
StartRecords(log) ==
    SelectSeq(log, LAMBDA l : l.event = "step")
\* The start records of the steps 1..n, in step order.
StartsOf(n) == [k \in 1..n |-> Line("INFO", "step", k)]

\* C33: every executor appends its log records, in the order the events
\* occur, to the in-memory sink that run_course_automation returns: after
\* a run that executed steps s1..sn, the returned log text contains one
\* start record per executed step, in step order.
C33_StartRecordsReturned ==
    RcaDone => StartRecords(f_out.text) = StartsOf(f_out.idx)

\* C33: a run of two steps has returned a text with no start record,
\* while the log file holds the two start records in step order and, for
\* a goto, the record of the navigation.
C33_Witness ==
    /\ RcaDone /\ f_out.success /\ f_out.idx = 2
    /\ f_out.text = <<BlankLine>>
    /\ StartRecords(f_out.file) = StartsOf(2)
    /\ \E p \in 1..Len(f_out.file) : f_out.file[p].event = "navigating"

\* C33: a run stopped by a fatal error has returned the FATAL line alone.
C33_WitnessFatal ==
    /\ RcaDone /\ ~f_out.success /\ f_out.idx = 1
    /\ f_out.text = <<BlankLine, FatalLine>>
    /\ f_out.file # <<>>

\* A call of exec_step_goto has ended; an executor has read the attribute
\* of its locator.
GotoDone == fpc = "out" /\ f_in.fn = "exec_step_goto"
AttrDone == fpc = "out" /\ f_in.fn = "locator_attr"

\* The items of the step whose key is one of the names, whatever its
\* letter case.
ItemsNamed(names) ==
    {i \in DOMAIN f_in.step : Lower(f_in.step[i].key) \in names}

\* C31: a step field is found whatever the letter case of its key, for
\* the primary name and for each documented alias: a goto step with one
\* address key, "value" or "url" in any case, navigates to that address,
\* and a locator with one attribute key, "attr", "arrt" or "attribute" in
\* any case, uses it.
C31_FoundWhateverCase ==
    /\ GotoDone =>
         \A i \in ItemsNamed({Key_value, Key_url}) :
             ItemsNamed({Key_value, Key_url}) = {i}
                 => /\ f_out.result = "navigated"
                    /\ f_out.url = f_in.step[i].value
    /\ AttrDone =>
         \A i \in ItemsNamed({Key_attr, Key_arrt, Key_attribute}) :
             ItemsNamed({Key_attr, Key_arrt, Key_attribute}) = {i}
                 => /\ f_out.result = "attr"
                    /\ f_out.attr = f_in.step[i].value

\* C31: a goto step whose only key is "URL" has raised for want of an
\* address.
C31_Witness ==
    /\ GotoDone /\ Len(f_in.step) = 1 /\ f_in.step[1].key = Key_URL
    /\ f_out.result = "raise"

\* C31: the attribute under "Arrt" was not found, the one under "ATTR"
\* was; a goto step with "Value" navigated, and so did one with "url".
C31_WitnessArrt ==
    /\ AttrDone /\ Len(f_in.step) = 1 /\ f_in.step[1].key = Key_Arrt
    /\ f_out.result = "no_attr"
C31_WitnessATTR ==
    /\ AttrDone /\ Len(f_in.step) = 1 /\ f_in.step[1].key = Key_ATTR
    /\ f_out.result = "attr" /\ f_out.attr = f_in.step[1].value
C31_WitnessValue ==
    /\ GotoDone /\ Len(f_in.step) = 1 /\ f_in.step[1].key = Key_Value
    /\ f_out.result = "navigated" /\ f_out.url = f_in.step[1].value
C31_WitnessAlias ==
    /\ GotoDone /\ Len(f_in.step) = 1 /\ f_in.step[1].key = Key_url
    /\ f_out.result = "navigated"

=============================================================================
